---- MODULE Spec2Model ----
(***************************************************************************)
(* Model of the experiment orchestrator of ablation-study/run.py: the      *)
(* ablation and sensitivity drivers, the run executor (_run), the artifact *)
(* locator, the telemetry-extraction call and the result store (CSV rows   *)
(* and run.json snapshots) on a disk that outlives each invocation.        *)
(***************************************************************************)
EXTENDS Naturals, Integers, Sequences, FiniteSets, TLC

\* ------------------------------------------------------------------ bounds
MaxInvocations == 2
MaxVariants == 2
MaxRepeats == 2
MaxRuns == 3
MaxReuseRepeats == 1

\* --------------------------------------------------------- small input sets
\* names a caller may pass to --variants: two registry names and one unknown
RequestedNames == {"ultrashuffle-full", "no-remote-cache", "bogus"}
\* tokens a caller may pass to --values
SweepValues == {"2g", "1g"}
\* sweep kinds handed to run_sensitivity: the three supported ones and one other
SweepKinds == {"cxl-capacity", "align", "working-set-fit", "bogus-sweep"}
\* exit codes of the external commands
LifecycleExitCodes == {0, 1}
WorkloadExitCodes == {0, 137}
\* what one workload process leaves in its event-log directory
WorkloadArtifacts == {"none", "complete"}

\* ----------------------------------------------------------------- helpers
None == <<>>
Some(x) == <<x>>

Put(f, k, v) == [x \in (DOMAIN f) \cup {k} |-> IF x = k THEN v ELSE f[x]]

\* Path.mkdir(parents=True, exist_ok=True): the directory and all its ancestors
Mkdir(p) == {SubSeq(p, 1, k) : k \in 1..Len(p)}

\* f"run-{rep:03d}"
RunDirName(rep) ==
    CASE rep = 0 -> "run-000" [] rep = 1 -> "run-001" [] rep = 2 -> "run-002"
      [] rep = 3 -> "run-003" [] rep = 4 -> "run-004" [] OTHER -> "run-005"

\* f"sensitivity-{args.sweep}"
SweepRootName(sweep) ==
    CASE sweep = "cxl-capacity" -> "sensitivity-cxl-capacity"
      [] sweep = "align" -> "sensitivity-align"
      [] sweep = "working-set-fit" -> "sensitivity-working-set-fit"
      [] OTHER -> "sensitivity-bogus-sweep"

\* ---------------------------------------------------------- static registry
VariantOrder ==
    <<"ultrashuffle-full", "no-partition-homes", "no-remote-cache",
      "service-mediated-fetch", "per-block-files">>

_variants ==
    [n \in {VariantOrder[i] : i \in 1..Len(VariantOrder)} |->
        [name |-> n,
         scache_conf_dir |-> <<"conf", "scache-multinode", n>>,
         spark_conf_overrides |->
            IF n = "per-block-files" THEN {<<"spark.scache.shuffle.noLocalFiles", "false">>}
            ELSE {},
         notes |-> n]]

DefaultWorkloadArgs == <<"32", "200000", "1024", "32">>

ablation_csv_header ==
    <<"variant", "repeat", "exit_code", "submit_elapsed_s", "app_duration_ms",
      "shuffle_write_bytes", "shuffle_read_bytes", "eventlog", "notes">>

sensitivity_csv_header ==
    <<"sweep", "value", "repeat", "exit_code", "submit_elapsed_s", "app_duration_ms",
      "shuffle_write_bytes", "shuffle_read_bytes", "eventlog">>

\* the summary the extractor prints for a log it could read
SampleSummary ==
    [app_duration_ms |-> "3500", shuffle_write_bytes_sum |-> "1024",
     shuffle_read_bytes_sum |-> "2048"]

\* time.time() - start: the measured wall-clock seconds, left symbolic
Elapsed == "elapsed_s"

\* ------------------------------------------------------------------- state
VARIABLES
    dirs,          \* directories that exist on disk (paths are sequences of names)
    csv,           \* tabular files: path -> sequence of lines
    snapshots,     \* run.json files: run directory -> structured record
    eventlogs,     \* files of each spark-events directory: run directory -> set
    summaries,     \* eventlog.summary.json files: run directory -> summary
    genconf,       \* generated scache.conf files: conf dir -> key/value updates
    files_ok,      \* which external files exist: scripts, base scache.conf
    inv,           \* number of invocations started so far
    args,          \* argparse namespace of the current invocation
    pc,            \* position of the orchestrator in run_ablation / run_sensitivity
    status,        \* process exit status of the finished invocation
    variants,      \* resolved variant list (ablation)
    vi,            \* index of the current variant / sweep value (1-based)
    rep,           \* current repeat index
    loc,           \* locals of the loop body: conf_dir, updates, workload_args, rc, ...
    inflight,      \* external child processes that have been launched and not exited
    serial,        \* number of workload processes launched so far (names their logs)
    log,           \* history of this invocation: launches, exits, writes
    call,          \* a helper function called on its own: its name and arguments
    result         \* what that call returned

vars == <<dirs, csv, snapshots, eventlogs, summaries, genconf, files_ok, inv, args, pc,
          status, variants, vi, rep, loc, inflight, serial, log, call, result>>

\* the variables of the orchestrator, and those of a helper called on its own
orchestrator == <<dirs, csv, snapshots, eventlogs, summaries, genconf, files_ok, inv, args,
                  pc, status, variants, vi, rep, loc, inflight, serial, log>>

calls == <<call, result>>

NoCall == [fn |-> "none"]

\* a call that has not returned yet, and one that returned v
Pending == [done |-> FALSE]

Returned(v) == [done |-> TRUE, value |-> v]

disk == <<dirs, csv, snapshots, eventlogs, summaries, genconf>>

NoLoc ==
    [conf_dir |-> <<>>, updates |-> {}, workload_args |-> <<>>,
     workload_args_base |-> <<>>, rc |-> 0,
     elapsed_s |-> Elapsed, eventlog_path |-> None, parsed |-> None, run_dir |-> <<>>]

NoArgs ==
    [cmd |-> "none", out |-> <<>>, repeats |-> 0, restart_cluster |-> FALSE,
     variants |-> <<>>, sweep |-> "none", values |-> <<>>, workload_args |-> <<>>]

Init ==
    /\ dirs = {}
    /\ csv = <<>>
    /\ snapshots = <<>>
    /\ eventlogs = <<>>
    /\ summaries = <<>>
    /\ genconf = <<>>
    /\ files_ok \in [scripts : BOOLEAN, base_conf : BOOLEAN]
    /\ inv = 0
    /\ args = NoArgs
    /\ pc = "idle"
    /\ status = 0
    /\ variants = <<>>
    /\ vi = 1
    /\ rep = 0
    /\ loc = NoLoc
    /\ inflight = {}
    /\ serial = 0
    /\ log = <<>>
    /\ call = NoCall
    /\ result = Pending


\* ------------------------------------------------------- invocation inputs
AblationArgs ==
    {[cmd |-> "ablation", out |-> <<"out">>, repeats |-> r, restart_cluster |-> rc,
      variants |-> vs, sweep |-> "none", values |-> <<>>,
      workload_args |-> DefaultWorkloadArgs] :
        r \in 0..MaxRepeats, rc \in BOOLEAN,
        vs \in UNION {[1..n -> RequestedNames] : n \in 0..MaxVariants}}

SensitivityArgs ==
    {[cmd |-> "sensitivity", out |-> <<"out">>, repeats |-> r, restart_cluster |-> rc,
      variants |-> <<>>, sweep |-> sw, values |-> vals,
      workload_args |-> DefaultWorkloadArgs] :
        r \in 0..MaxRepeats, rc \in BOOLEAN, sw \in SweepKinds,
        vals \in UNION {[1..n -> SweepValues] : n \in 1..MaxVariants}}

\* invocations that share one results root: one variant or one sweep value each
ReuseArgs ==
    {a \in AblationArgs \cup SensitivityArgs :
        /\ a.repeats <= MaxReuseRepeats
        /\ a.cmd = "ablation" => a.variants = <<"ultrashuffle-full">>
        /\ a.cmd = "sensitivity" =>
              a.values = <<"2g">> /\ a.sweep \in {"cxl-capacity", "working-set-fit"}}

\* number of workload runs an invocation asks for
PlannedRuns(a) ==
    (IF a.cmd = "ablation"
        THEN (IF a.variants = <<>> THEN Len(VariantOrder) ELSE Len(a.variants))
        ELSE Len(a.values)) * a.repeats

\* ------------------------------------------------------------ run executor
Event(ev, cmd, rc, conf) ==
    [ev |-> ev, cmd |-> cmd, rc |-> rc, vi |-> vi, rep |-> rep, conf |-> conf]

Child(cmd, check, conf, eventlog_dir) ==
    [cmd |-> cmd, check |-> check, conf |-> conf, eventlog_dir |-> eventlog_dir,
     id |-> serial]

\* the three external commands and the check flag each is run with
stop_child_checked(conf) == Child("stop", TRUE, conf, <<>>)

stop_child(conf) == Child("stop", FALSE, conf, <<>>)

\* the start command run without the configuration-directory override
start_child_without_override(conf) == Child("start", TRUE, <<>>, <<>>)

start_child_unchecked(conf) == Child("start", FALSE, conf, <<>>)

start_child(conf) == Child("start", TRUE, conf, <<>>)

submit_child_checked(run_dir) == Child("submit", TRUE, <<>>, run_dir)

submit_child(run_dir) == Child("submit", FALSE, <<>>, run_dir)

\* Popen without the wait(): the caller goes on while the child is still running
_run_popen_nowait(child) ==
    /\ inflight' = inflight \cup {child}
    /\ log' = Append(log, Event("launch", child.cmd, 0, child.conf))
    /\ pc' = CASE child.cmd = "stop" -> "after_stop"
               [] child.cmd = "start" -> "rep"
               [] OTHER -> "after_submit"

\* _run up to and including Popen: the child is started, the caller blocks in wait()
_run_popen(child) ==
    /\ inflight' = inflight \cup {child}
    /\ log' = Append(log, Event("launch", child.cmd, 0, child.conf))
    /\ pc' = CASE child.cmd = "stop" -> "wait_stop"
               [] child.cmd = "start" -> "wait_start"
               [] OTHER -> "wait_submit"

\* the exit code as the caller sees it: the code of the stop command is thrown away
Ignored == -1

Observed(child, rc) == IF child.cmd = "stop" THEN Ignored ELSE rc

ExitCodesOf(child) ==
    IF child.cmd = "submit" THEN WorkloadExitCodes ELSE LifecycleExitCodes

\* files the workload process leaves in spark.eventLog.dir before it exits
WorkloadWrites(child, art) ==
    IF art = "none" \/ child.cmd # "submit" THEN eventlogs
    ELSE Put(eventlogs, child.eventlog_dir,
             eventlogs[child.eventlog_dir] \cup
                {[id |-> child.id, inprogress |-> (art = "inprogress"), is_file |-> TRUE,
                  mtime |-> child.id]})

\* the child exits, p.wait() returns, _run raises or returns (rc, elapsed_s)
_run_wait ==
    /\ pc \in {"wait_stop", "wait_start", "wait_submit"}
    /\ \E child \in inflight, art \in WorkloadArtifacts :
         \E rc \in ExitCodesOf(child) :
            /\ child.cmd = "submit" \/ art = "none"
            /\ inflight' = inflight \ {child}
            /\ eventlogs' = WorkloadWrites(child, art)
            /\ log' = Append(log, Event("exit", child.cmd, Observed(child, rc), child.conf))
            /\ IF child.check /\ rc # 0
                  THEN /\ pc' = "exited"
                       /\ status' = 1
                       /\ loc' = loc
                  ELSE /\ pc' = CASE child.cmd = "stop" -> "after_stop"
                                  [] child.cmd = "start" -> "rep"
                                  [] OTHER -> "after_submit"
                       /\ status' = status
                       /\ loc' = [loc EXCEPT !.rc = rc, !.elapsed_s = Elapsed]
    /\ UNCHANGED calls
    /\ UNCHANGED <<dirs, csv, snapshots, summaries, genconf, files_ok, inv, args,
                   variants, vi, rep, serial>>

\* ------------------------------------------------------- artifact location
MaxMtime(fs) == {f \in fs : \A g \in fs : g.mtime <= f.mtime}

\* the newest entry wins whether or not it is marked in-progress
_find_single_eventlog_newest(run_dir) ==
    IF (run_dir \o <<"spark-events">>) \notin dirs \/ run_dir \notin DOMAIN eventlogs
    THEN {None}
    ELSE LET candidates == {p \in eventlogs[run_dir] : p.is_file}
         IN  IF candidates = {} THEN {None} ELSE {Some(p) : p \in MaxMtime(candidates)}

\* the values _find_single_eventlog may return for a run directory
_find_single_eventlog(run_dir) ==
    IF (run_dir \o <<"spark-events">>) \notin dirs \/ run_dir \notin DOMAIN eventlogs
    THEN {None}
    ELSE LET candidates == {p \in eventlogs[run_dir] : p.is_file}
             finished == {p \in candidates : ~p.inprogress}
             inprogress == {p \in candidates : p.inprogress}
         IN  IF Cardinality(finished) = 1 THEN {Some(p) : p \in finished}
             ELSE IF Cardinality(finished) > 1 THEN {Some(p) : p \in MaxMtime(finished)}
             ELSE IF Cardinality(inprogress) = 1 THEN {Some(p) : p \in inprogress}
             ELSE IF Cardinality(inprogress) > 1 THEN {Some(p) : p \in MaxMtime(inprogress)}
             ELSE {None}

\* ------------------------------------------------------------ result store
HeaderLine(header) ==
    [kind |-> "header", fields |-> header,
     cells |-> [k \in {header[i] : i \in 1..Len(header)} |-> k]]

RowLine(header, row) ==
    [kind |-> "row", fields |-> header,
     cells |-> [k \in {header[i] : i \in 1..Len(header)} |->
                   IF k \in DOMAIN row THEN row[k] ELSE ""]]

\* the header is written on every call
_write_csv_row_always_header(csv_path, header, row) ==
    LET old == IF csv_path \in DOMAIN csv THEN csv[csv_path] ELSE <<>>
    IN  Put(csv, csv_path, Append(Append(old, HeaderLine(header)), RowLine(header, row)))

\* the file after _write_csv_row: header only if the file did not exist, then the row
_write_csv_row(csv_path, header, row) ==
    LET exists == csv_path \in DOMAIN csv
        old == IF exists THEN csv[csv_path] ELSE <<>>
        opened == IF ~exists THEN Append(old, HeaderLine(header)) ELSE old
    IN  Put(csv, csv_path, Append(opened, RowLine(header, row)))

\* a metric that is not there is written as zero
Metric_zero_filled(parsed, key) == IF parsed = None THEN "0" ELSE parsed[1][key]

\* (parsed or {}).get(key, ""): csv writes None as the empty string
Metric(parsed, key) == IF parsed = None THEN "" ELSE parsed[1][key]

\* -------------------------------------------------------------------- main
enter(a) ==
    /\ args' = a
    /\ inv' = inv + 1
    /\ pc' = "setup"
    /\ status' = 0
    /\ variants' = <<>>
    /\ vi' = 1
    /\ rep' = 0
    /\ loc' = NoLoc
    /\ log' = <<>>
    /\ UNCHANGED calls
    /\ UNCHANGED <<dirs, csv, snapshots, eventlogs, summaries, genconf, files_ok,
                   inflight, serial>>

\* the process is started once, on a disk that has no results root yet
main ==
    /\ pc = "idle"
    /\ \E a \in AblationArgs \cup SensitivityArgs :
         /\ PlannedRuns(a) <= MaxRuns
         /\ enter(a)

\* the process is started after an earlier invocation has ended, with the same --out
main_again ==
    /\ pc \in {"idle", "exited"}
    /\ inv < MaxInvocations
    /\ \E a \in ReuseArgs : enter(a)

\* ------------------------------------------------------------ run_ablation
\* unknown names are skipped instead of reported
RequestedKnownOnly ==
    IF args.variants = <<>> THEN VariantOrder
    ELSE SelectSeq(args.variants, LAMBDA n : n \in DOMAIN _variants)

\* the registry is walked and filtered by the requested names
RequestedRegistryOrder ==
    IF args.variants = <<>> THEN VariantOrder
    ELSE SelectSeq(VariantOrder,
                   LAMBDA n : \E i \in 1..Len(args.variants) : args.variants[i] = n)

\* requested = args.variants or list(variants_all.keys())
Requested == IF args.variants = <<>> THEN VariantOrder ELSE args.variants

run_ablation_setup ==
    /\ pc = "setup"
    /\ args.cmd = "ablation"
    /\ IF \E i \in 1..Len(Requested) : Requested[i] \notin DOMAIN _variants
          THEN /\ pc' = "exited"
               /\ status' = 2
               /\ UNCHANGED <<dirs, variants, loc>>
          ELSE /\ dirs' = dirs \cup Mkdir(args.out)
               /\ IF ~files_ok.scripts
                     THEN /\ pc' = "exited"
                          /\ status' = 2
                          /\ UNCHANGED <<variants, loc>>
                     ELSE /\ variants' = [i \in 1..Len(Requested) |-> _variants[Requested[i]]]
                          /\ loc' = [loc EXCEPT !.workload_args = args.workload_args]
                          /\ pc' = "variant"
                          /\ status' = status
    /\ UNCHANGED calls
    /\ UNCHANGED <<csv, snapshots, eventlogs, summaries, genconf, files_ok, inv, args,
                   vi, rep, inflight, serial, log>>

variant_dir == args.out \o <<"ablation", variants[vi].name>>

run_ablation_variant ==
    /\ pc = "variant"
    /\ args.cmd = "ablation"
    /\ IF vi > Len(variants)
          THEN /\ pc' = "exited"
               /\ status' = 0
               /\ UNCHANGED <<dirs, rep, loc, inflight, log>>
          ELSE /\ dirs' = dirs \cup Mkdir(variant_dir)
               /\ rep' = 0
               /\ status' = status
               /\ IF args.restart_cluster
                     THEN /\ loc' = [loc EXCEPT !.conf_dir = variants[vi].scache_conf_dir]
                          /\ _run_popen(stop_child(variants[vi].scache_conf_dir))
                     ELSE /\ loc' = [loc EXCEPT !.conf_dir = variants[vi].scache_conf_dir]
                          /\ pc' = "rep"
                          /\ UNCHANGED <<inflight, log>>
    /\ UNCHANGED calls
    /\ UNCHANGED <<csv, snapshots, eventlogs, summaries, genconf, files_ok, inv, args,
                   variants, vi, serial>>

run_ablation_start ==
    /\ pc = "after_stop"
    /\ args.cmd = "ablation"
    /\ loc' = loc
    /\ _run_popen(start_child(variants[vi].scache_conf_dir))
    /\ UNCHANGED calls
    /\ UNCHANGED <<dirs, csv, snapshots, eventlogs, summaries, genconf, files_ok, inv, args,
                   status, variants, vi, rep, serial>>

run_dir_ablation == variant_dir \o <<RunDirName(rep)>>

\* SPARK_SUBMIT_EXTRA_ARGS: the --conf overrides handed to the submit script
_spark_submit_extra_args(app_name, run_dir, overrides) ==
    {<<"spark.app.name", app_name>>, <<"spark.eventLog.dir", run_dir \o <<"spark-events">> >>}
        \cup overrides

run_ablation_rep ==
    /\ pc = "rep"
    /\ args.cmd = "ablation"
    /\ IF rep >= args.repeats
          THEN /\ vi' = vi + 1
               /\ pc' = "variant"
               /\ UNCHANGED <<dirs, eventlogs, loc, inflight, serial, log>>
          ELSE /\ dirs' = dirs \cup Mkdir(run_dir_ablation \o <<"spark-events">>)
               /\ eventlogs' = IF run_dir_ablation \in DOMAIN eventlogs THEN eventlogs
                               ELSE Put(eventlogs, run_dir_ablation, {})
               /\ loc' = [loc EXCEPT !.run_dir = run_dir_ablation,
                                     !.eventlog_path = None, !.parsed = None]
               /\ serial' = serial + 1
               /\ _run_popen(submit_child(run_dir_ablation))
               /\ vi' = vi
    /\ UNCHANGED calls
    /\ UNCHANGED <<csv, snapshots, summaries, genconf, files_ok, inv, args, status,
                   variants, rep>>

\* lines 283-286 / 443-446: locate the artifact, start the extractor if there is one
locate_and_extract ==
    \E p \in _find_single_eventlog(loc.run_dir) :
        /\ loc' = [loc EXCEPT !.eventlog_path = p, !.parsed = None]
        /\ IF p # None
              THEN /\ inflight' = inflight \cup {Child("parse", TRUE, <<>>, loc.run_dir)}
                   /\ log' = Append(log, Event("launch", "parse", 0, <<>>))
                   /\ pc' = "wait_parse"
              ELSE /\ pc' = "snapshot"
                   /\ UNCHANGED <<inflight, log>>

run_ablation_locate ==
    /\ pc = "after_submit"
    /\ args.cmd = "ablation"
    /\ locate_and_extract
    /\ UNCHANGED calls
    /\ UNCHANGED <<dirs, csv, snapshots, eventlogs, summaries, genconf, files_ok, inv, args,
                   status, variants, vi, rep, serial>>

\* subprocess.run returns: extraction failed (None) or the summary is stored and returned
_parse_eventlog ==
    /\ pc = "wait_parse"
    /\ \E child \in inflight, ok \in BOOLEAN :
         /\ child.cmd = "parse"
         /\ inflight' = inflight \ {child}
         /\ log' = Append(log, Event("exit", "parse", IF ok THEN 0 ELSE 1, <<>>))
         /\ IF ok
               THEN /\ summaries' = Put(summaries, loc.run_dir, SampleSummary)
                    /\ loc' = [loc EXCEPT !.parsed = Some(SampleSummary)]
               ELSE /\ summaries' = summaries
                    /\ loc' = [loc EXCEPT !.parsed = None]
    /\ pc' = "snapshot"
    /\ UNCHANGED calls
    /\ UNCHANGED <<dirs, csv, snapshots, eventlogs, genconf, files_ok, inv, args, status,
                   variants, vi, rep, serial>>

ablation_meta ==
    [variant |-> variants[vi].name,
     repeat |-> rep,
     submit_cmd |-> <<"submit-groupbytest-mn.sh">> \o loc.workload_args,
     spark_submit_extra_args |->
        _spark_submit_extra_args(<<"ablation", variants[vi].name>>, loc.run_dir,
                                 variants[vi].spark_conf_overrides),
     scache_conf_dir |-> variants[vi].scache_conf_dir,
     restart_cluster |-> args.restart_cluster,
     exit_code |-> loc.rc,
     submit_elapsed_s |-> loc.elapsed_s,
     eventlog |-> loc.eventlog_path,
     eventlog_summary |-> loc.parsed,
     notes |-> variants[vi].notes]

\* the snapshot is not written
write_snapshot_skipped(meta) ==
    /\ snapshots' = snapshots
    /\ log' = log
    /\ pc' = "row"

\* (run_dir / "run.json").write_text(...)
write_snapshot(meta) ==
    /\ snapshots' = Put(snapshots, loc.run_dir, meta)
    /\ log' = Append(log, Event("snapshot", "write", meta.exit_code, <<>>))
    /\ pc' = "row"

run_ablation_snapshot ==
    /\ pc = "snapshot"
    /\ args.cmd = "ablation"
    /\ write_snapshot(ablation_meta)
    /\ UNCHANGED calls
    /\ UNCHANGED <<dirs, csv, eventlogs, summaries, genconf, files_ok, inv, args, status,
                   variants, vi, rep, loc, inflight, serial>>

ablation_row ==
    [variant |-> variants[vi].name,
     repeat |-> rep,
     exit_code |-> loc.rc,
     submit_elapsed_s |-> loc.elapsed_s,
     app_duration_ms |-> Metric(loc.parsed, "app_duration_ms"),
     shuffle_write_bytes |-> Metric(loc.parsed, "shuffle_write_bytes_sum"),
     shuffle_read_bytes |-> Metric(loc.parsed, "shuffle_read_bytes_sum"),
     eventlog |-> loc.eventlog_path,
     notes |-> variants[vi].notes]

\* the cluster is started again after every row
append_row_then_start(csv_path, header, row) ==
    /\ dirs' = dirs \cup Mkdir(SubSeq(csv_path, 1, Len(csv_path) - 1))
    /\ csv' = _write_csv_row(csv_path, header, row)
    /\ log' = Append(log, Event("row", "write", row.exit_code, <<>>))
    /\ rep' = rep + 1
    /\ pc' = IF args.restart_cluster THEN "after_stop" ELSE "rep"

\* the repeat counter is not advanced
append_row_same_repeat(csv_path, header, row) ==
    /\ dirs' = dirs \cup Mkdir(SubSeq(csv_path, 1, Len(csv_path) - 1))
    /\ csv' = _write_csv_row(csv_path, header, row)
    /\ log' = Append(log, Event("row", "write", row.exit_code, <<>>))
    /\ rep' = rep
    /\ pc' = "rep"

append_row(csv_path, header, row) ==
    /\ dirs' = dirs \cup Mkdir(SubSeq(csv_path, 1, Len(csv_path) - 1))
    /\ csv' = _write_csv_row(csv_path, header, row)
    /\ log' = Append(log, Event("row", "write", row.exit_code, <<>>))
    /\ rep' = rep + 1
    /\ pc' = "rep"

run_ablation_row ==
    /\ pc = "row"
    /\ args.cmd = "ablation"
    /\ append_row(args.out \o <<"ablation.csv">>, ablation_csv_header, ablation_row)
    /\ UNCHANGED calls
    /\ UNCHANGED <<snapshots, eventlogs, summaries, genconf, files_ok, inv, args, status,
                   variants, vi, loc, inflight, serial>>

\* --------------------------------------------------------- run_sensitivity
base_variant == _variants["ultrashuffle-full"]

sweep_root == args.out \o <<SweepRootName(args.sweep)>>

value_label == args.values[vi]

run_sensitivity_setup ==
    /\ pc = "setup"
    /\ args.cmd = "sensitivity"
    /\ IF ~files_ok.base_conf
          THEN /\ pc' = "exited"
               /\ status' = 2
               /\ UNCHANGED <<dirs, loc>>
          ELSE IF ~files_ok.scripts
          THEN /\ dirs' = dirs \cup Mkdir(args.out)
               /\ pc' = "exited"
               /\ status' = 2
               /\ loc' = loc
          ELSE /\ dirs' = dirs \cup Mkdir(args.out) \cup Mkdir(sweep_root)
               /\ loc' = [loc EXCEPT !.workload_args = args.workload_args,
                                     !.workload_args_base = args.workload_args]
               /\ pc' = "value"
               /\ status' = status
    /\ UNCHANGED calls
    /\ UNCHANGED <<csv, snapshots, eventlogs, summaries, genconf, files_ok, inv, args,
                   variants, vi, rep, inflight, serial, log>>

\* lines 368-375: the updates dict of a sweep value, in insertion order
sweep_updates_dict(sweep, v) ==
    IF sweep = "cxl-capacity"
        THEN <<[key |-> "scache.memory.offHeap.size", value |-> <<v>>],
               [key |-> "scache.storage.cxl.shared.pool.size", value |-> <<v>>]>>
    ELSE IF sweep = "align"
        THEN <<[key |-> "scache.daemon.ipc.pool.align", value |-> <<v>>],
               [key |-> "scache.storage.cxl.shared.pool.align", value |-> <<v>>]>>
    ELSE <<>>

\* the configuration keys a sweep value is written to
sweep_updates(sweep, v) ==
    {<<sweep_updates_dict(sweep, v)[i].key, sweep_updates_dict(sweep, v)[i].value[1]>> :
        i \in 1..Len(sweep_updates_dict(sweep, v))}

\* the value lands in the first slot of the argument vector
sweep_workload_args_first_slot(sweep, base, v) ==
    IF sweep = "working-set-fit" THEN [base EXCEPT ![1] = v] ELSE base

\* the workload argument vector of a sweep value (index 1 of the Python list)
sweep_workload_args(sweep, base, v) ==
    IF sweep = "working-set-fit" THEN [base EXCEPT ![2] = v] ELSE base

\* workload_args_base after a value: line 378 works on a copy, the base is as before
workload_args_base_after(sweep, base, v) == base

\* one generated directory for the whole sweep
sweep_conf_dir_shared(updates) ==
    IF updates # {} THEN sweep_root \o <<"generated-conf">>
    ELSE base_variant.scache_conf_dir

\* lines 385-387: the configuration directory of the current value
sweep_conf_dir(updates) ==
    IF updates # {} THEN sweep_root \o <<"generated-conf", value_label>>
    ELSE base_variant.scache_conf_dir

run_sensitivity_value ==
    /\ pc = "value"
    /\ args.cmd = "sensitivity"
    /\ IF vi > Len(args.values)
          THEN /\ pc' = "exited"
               /\ status' = 0
               /\ UNCHANGED <<dirs, genconf, rep, loc, inflight, log>>
          ELSE IF args.sweep \notin {"cxl-capacity", "align", "working-set-fit"}
          THEN /\ pc' = "exited"
               /\ status' = 2
               /\ UNCHANGED <<dirs, genconf, rep, loc, inflight, log>>
          ELSE LET updates == sweep_updates(args.sweep, value_label)
                   conf_dir == sweep_conf_dir(updates)
               IN  /\ IF updates # {}
                         THEN /\ dirs' = dirs \cup Mkdir(conf_dir)
                              /\ genconf' = Put(genconf, conf_dir,
                                                [src |-> base_variant.scache_conf_dir,
                                                 updates |-> updates])
                         ELSE UNCHANGED <<dirs, genconf>>
                   /\ rep' = 0
                   /\ status' = status
                   /\ loc' = [loc EXCEPT !.conf_dir = conf_dir, !.updates = updates,
                                         !.workload_args =
                                            sweep_workload_args(args.sweep,
                                                                loc.workload_args_base,
                                                                value_label),
                                         !.workload_args_base =
                                            workload_args_base_after(args.sweep,
                                                                     loc.workload_args_base,
                                                                     value_label)]
                   /\ IF args.restart_cluster
                         THEN _run_popen(stop_child(conf_dir))
                         ELSE /\ pc' = "rep"
                              /\ UNCHANGED <<inflight, log>>
    /\ UNCHANGED calls
    /\ UNCHANGED <<csv, snapshots, eventlogs, summaries, files_ok, inv, args, variants, vi,
                   serial>>

run_sensitivity_start ==
    /\ pc = "after_stop"
    /\ args.cmd = "sensitivity"
    /\ loc' = loc
    /\ _run_popen(start_child(loc.conf_dir))
    /\ UNCHANGED calls
    /\ UNCHANGED <<dirs, csv, snapshots, eventlogs, summaries, genconf, files_ok, inv, args,
                   status, variants, vi, rep, serial>>

run_dir_sensitivity == sweep_root \o <<"runs", value_label, RunDirName(rep)>>

run_sensitivity_rep ==
    /\ pc = "rep"
    /\ args.cmd = "sensitivity"
    /\ IF rep >= args.repeats
          THEN /\ vi' = vi + 1
               /\ pc' = "value"
               /\ UNCHANGED <<dirs, eventlogs, loc, inflight, serial, log>>
          ELSE /\ dirs' = dirs \cup Mkdir(run_dir_sensitivity \o <<"spark-events">>)
               /\ eventlogs' = IF run_dir_sensitivity \in DOMAIN eventlogs THEN eventlogs
                               ELSE Put(eventlogs, run_dir_sensitivity, {})
               /\ loc' = [loc EXCEPT !.run_dir = run_dir_sensitivity,
                                     !.eventlog_path = None, !.parsed = None]
               /\ serial' = serial + 1
               /\ _run_popen(submit_child(run_dir_sensitivity))
               /\ vi' = vi
    /\ UNCHANGED calls
    /\ UNCHANGED <<csv, snapshots, summaries, genconf, files_ok, inv, args, status,
                   variants, rep>>

run_sensitivity_locate ==
    /\ pc = "after_submit"
    /\ args.cmd = "sensitivity"
    /\ locate_and_extract
    /\ UNCHANGED calls
    /\ UNCHANGED <<dirs, csv, snapshots, eventlogs, summaries, genconf, files_ok, inv, args,
                   status, variants, vi, rep, serial>>

sensitivity_meta ==
    [sweep |-> args.sweep,
     value |-> value_label,
     repeat |-> rep,
     submit_cmd |-> <<"submit-groupbytest-mn.sh">> \o loc.workload_args,
     spark_submit_extra_args |->
        _spark_submit_extra_args(<<"sensitivity", args.sweep, value_label>>, loc.run_dir, {}),
     scache_conf_dir |-> loc.conf_dir,
     scache_conf_updates |-> loc.updates,
     exit_code |-> loc.rc,
     submit_elapsed_s |-> loc.elapsed_s,
     eventlog |-> loc.eventlog_path,
     eventlog_summary |-> loc.parsed]

run_sensitivity_snapshot ==
    /\ pc = "snapshot"
    /\ args.cmd = "sensitivity"
    /\ write_snapshot(sensitivity_meta)
    /\ UNCHANGED calls
    /\ UNCHANGED <<dirs, csv, eventlogs, summaries, genconf, files_ok, inv, args, status,
                   variants, vi, rep, loc, inflight, serial>>

sensitivity_row ==
    [sweep |-> args.sweep,
     value |-> value_label,
     repeat |-> rep,
     exit_code |-> loc.rc,
     submit_elapsed_s |-> loc.elapsed_s,
     app_duration_ms |-> Metric(loc.parsed, "app_duration_ms"),
     shuffle_write_bytes |-> Metric(loc.parsed, "shuffle_write_bytes_sum"),
     shuffle_read_bytes |-> Metric(loc.parsed, "shuffle_read_bytes_sum"),
     eventlog |-> loc.eventlog_path]

run_sensitivity_row ==
    /\ pc = "row"
    /\ args.cmd = "sensitivity"
    /\ append_row(sweep_root \o <<"sensitivity.csv">>, sensitivity_csv_header, sensitivity_row)
    /\ UNCHANGED calls
    /\ UNCHANGED <<snapshots, eventlogs, summaries, genconf, files_ok, inv, args, status,
                   variants, vi, loc, inflight, serial>>

\* ------------------------------------------- the orchestrator at rest
\* no invocation is running; the disk holds nothing but what a call is given
AtRest ==
    /\ csv = <<>>
    /\ snapshots = <<>>
    /\ summaries = <<>>
    /\ genconf = <<>>
    /\ files_ok = [scripts |-> TRUE, base_conf |-> TRUE]
    /\ inv = 0
    /\ args = NoArgs
    /\ pc = "idle"
    /\ status = 0
    /\ variants = <<>>
    /\ vi = 1
    /\ rep = 0
    /\ loc = NoLoc
    /\ inflight = {}
    /\ serial = 0
    /\ log = <<>>

\* --------------------------------------------------------- specifications
Steps ==
    \/ _run_wait
    \/ _parse_eventlog
    \/ run_ablation_setup
    \/ run_ablation_variant
    \/ run_ablation_start
    \/ run_ablation_rep
    \/ run_ablation_locate
    \/ run_ablation_snapshot
    \/ run_ablation_row
    \/ run_sensitivity_setup
    \/ run_sensitivity_value
    \/ run_sensitivity_start
    \/ run_sensitivity_rep
    \/ run_sensitivity_locate
    \/ run_sensitivity_snapshot
    \/ run_sensitivity_row

\* one invocation on a disk without a results root
Next == main \/ Steps

Spec == Init /\ [][Next]_vars

\* invocations one after the other on the same results root
NextReuse == main_again \/ Steps

SpecReuse == Init /\ [][NextReuse]_vars

\* ------------------------------------------------ configuration transformer
\* A file is a sequence of characters.  "LF", "CR" and "SP" stand for the line
\* feed, the carriage return and the blank; "=", "#" and "/" for themselves;
\* every other character is a word of [A-Za-z0-9_.-]+ (a key name, a value).
Whitespace == {"SP", "LF", "CR"}

Punctuation == {"=", "#", "/"}

\* \s of the pattern, str.isspace() of lstrip
IsSpace(c) == c \in Whitespace

\* [A-Za-z0-9_.-]
IsKeyChar(c) == c \notin Whitespace \cup Punctuation

Indices(t) == [i \in 1..Len(t) |-> i]

RECURSIVE Join(_)
\* "".join(lines)
Join(lines) == IF lines = <<>> THEN <<>> ELSE Head(lines) \o Join(Tail(lines))

\* a character class of the pattern: \s or [A-Za-z0-9_.-]
InClass(c, class) == IF class = "\\s" THEN IsSpace(c) ELSE IsKeyChar(c)

\* length of the longest run of characters of a class that starts at t[i]
Run(t, i, class) ==
    CHOOSE n \in 0..(Len(t) - i + 1) :
        /\ \A k \in i..(i + n - 1) : InClass(t[k], class)
        /\ i + n > Len(t) \/ ~InClass(t[i + n], class)

\* Path.read_text: text mode with universal newlines turns CR LF and CR into LF
read_text(bytes) ==
    LET kept == SelectSeq(Indices(bytes),
                          LAMBDA i : ~(bytes[i] = "LF" /\ i > 1 /\ bytes[i - 1] = "CR"))
    IN  [k \in 1..Len(kept) |-> IF bytes[kept[k]] = "CR" THEN "LF" ELSE bytes[kept[k]]]

\* str.splitlines(keepends=True): a line ends after LF, CR LF or a lone CR
splitlines(t) ==
    LET IsEnd(i) == t[i] = "LF" \/ (t[i] = "CR" /\ ~(i < Len(t) /\ t[i + 1] = "LF"))
        ends == SelectSeq(Indices(t), IsEnd)
        stops == IF t # <<>> /\ ~IsEnd(Len(t)) THEN Append(ends, Len(t)) ELSE ends
    IN  [k \in 1..Len(stops) |->
            SubSeq(t, IF k = 1 THEN 1 ELSE stops[k - 1] + 1, stops[k])]

\* is_comment: after lstrip() the line starts with "#" or "//"
is_comment(line) ==
    LET n == Run(line, 1, "\\s")
        stripped == SubSeq(line, n + 1, Len(line))
    IN  \/ Len(stripped) >= 1 /\ stripped[1] = "#"
        \/ Len(stripped) >= 2 /\ stripped[1] = "/" /\ stripped[2] = "/"

\* line.rstrip("\n")
rstrip_newline(line) ==
    LET n == CHOOSE m \in 0..Len(line) :
                /\ \A k \in (Len(line) - m + 1)..Len(line) : line[k] = "LF"
                /\ m = Len(line) \/ line[Len(line) - m] # "LF"
    IN  SubSeq(line, 1, Len(line) - n)

NoMatch == [matched |-> FALSE]

\* key_re.match: ^(\s*)([A-Za-z0-9_.-]+)(\s*=\s*)(.*?)(\s*)$ on a line without LF
key_re(t) ==
    LET n1 == Run(t, 1, "\\s")
        n2 == Run(t, n1 + 1, "[A-Za-z0-9_.-]")
        n3 == Run(t, n1 + n2 + 1, "\\s")
        eq == n1 + n2 + n3 + 1
        n4 == Run(t, eq + 1, "\\s")
        rest == SubSeq(t, eq + n4 + 1, Len(t))
        n5 == CHOOSE m \in 0..Len(rest) :
                  /\ \A k \in (Len(rest) - m + 1)..Len(rest) : IsSpace(rest[k])
                  /\ m = Len(rest) \/ ~IsSpace(rest[Len(rest) - m])
    IN  IF n2 = 0 \/ eq > Len(t) \/ t[eq] # "=" \/ (\E k \in 1..Len(t) : t[k] = "LF")
        THEN NoMatch
        ELSE [matched |-> TRUE,
              g1 |-> SubSeq(t, 1, n1),
              key |-> SubSeq(t, n1 + 1, n1 + n2),
              g3 |-> SubSeq(t, n1 + n2 + 1, eq + n4),
              value |-> SubSeq(rest, 1, Len(rest) - n5),
              g5 |-> SubSeq(rest, Len(rest) - n5 + 1, Len(rest))]

\* the key of a line that is not a comment and matches the pattern, else no key
KeyOf(line) ==
    LET m == key_re(rstrip_newline(line))
    IN  IF is_comment(line) \/ ~m.matched THEN None ELSE Some(m.key)

\* updates is a dict in insertion order: a sequence of [key, value] with distinct
\* keys, a key being one word and a value a sequence of characters
HasKey(updates, key) == \E i \in 1..Len(updates) : <<updates[i].key>> = key

Lookup(updates, key) == updates[CHOOSE i \in 1..Len(updates) : <<updates[i].key>> = key].value

\* lines 162-173: what the first loop appends to out for one source line
rewrite_line(line, updates) ==
    LET m == key_re(rstrip_newline(line))
    IN  IF is_comment(line) \/ ~m.matched THEN line
        ELSE IF HasKey(updates, m.key)
            THEN m.g1 \o m.key \o m.g3 \o Lookup(updates, m.key) \o m.g5 \o <<"LF">>
        ELSE line

\* lines 175-185: the lines appended for the keys no line of out carries
missing_keys(out, updates) ==
    LET existing_keys == {KeyOf(out[i]) : i \in 1..Len(out)} \ {None}
        missing == SelectSeq(updates, LAMBDA u : Some(<<u.key>>) \notin existing_keys)
    IN  [k \in 1..Len(missing) |-> <<missing[k].key, "=">> \o missing[k].value \o <<"LF">>]

\* the content written to dst for the content of src
_rewrite_kv_conf(src, updates) ==
    LET lines == splitlines(read_text(src))
        out == [i \in 1..Len(lines) |-> rewrite_line(lines[i], updates)]
    IN  Join(out \o missing_keys(out, updates))

\* longest file drawn as input
MaxConfLen == 4

ConfChars == {"a", "b", "=", "SP", "#", "/", "LF", "CR"}

ConfFiles == UNION {[1..n -> ConfChars] : n \in 0..MaxConfLen}

\* update sets: none, one key, two keys
ConfUpdates ==
    {<<>>, <<[key |-> "a", value |-> <<"z">>]>>,
     <<[key |-> "a", value |-> <<"z">>], [key |-> "b", value |-> <<"y">>]>>}

InitConf ==
    /\ AtRest
    /\ dirs = {}
    /\ eventlogs = <<>>
    /\ \E src \in ConfFiles, updates \in ConfUpdates :
          call = [fn |-> "_rewrite_kv_conf", src |-> src, updates |-> updates]
    /\ result = Pending

rewrite_kv_conf ==
    /\ call.fn = "_rewrite_kv_conf"
    /\ ~result.done
    /\ result' = Returned(_rewrite_kv_conf(call.src, call.updates))
    /\ UNCHANGED call
    /\ UNCHANGED orchestrator

NextConf == rewrite_kv_conf

SpecConf == InitConf /\ [][NextConf]_vars

\* ------------------------- the configuration generated for one sweep value
\* lines 384-394: the scache.conf the cluster is restarted with for a value
generated_conf(sweep, v, base) ==
    IF sweep_updates_dict(sweep, v) # <<>>
        THEN _rewrite_kv_conf(base, sweep_updates_dict(sweep, v))
    ELSE base

\* base files: the keys of the sweep, one other word, "=", blank and line feed
BaseConfChars(sweep) ==
    {sweep_updates_dict(sweep, "v")[i].key : i \in 1..Len(sweep_updates_dict(sweep, "v"))}
        \cup {"other", "=", "SP", "LF"}

BaseConfFiles(sweep) == UNION {[1..n -> BaseConfChars(sweep)] : n \in 0..MaxConfLen}

InitSweep ==
    /\ AtRest
    /\ dirs = {}
    /\ eventlogs = <<>>
    /\ \E sweep \in {"cxl-capacity", "align", "working-set-fit"}, v \in SweepValues :
          \E base \in BaseConfFiles(sweep) :
             call = [fn |-> "generated_conf", sweep |-> sweep, value |-> v, base |-> base]
    /\ result = Pending

generate_conf ==
    /\ call.fn = "generated_conf"
    /\ ~result.done
    /\ result' = Returned(generated_conf(call.sweep, call.value, call.base))
    /\ UNCHANGED call
    /\ UNCHANGED orchestrator

NextSweep == generate_conf

SpecSweep == InitSweep /\ [][NextSweep]_vars

\* ------------------------------------ the artifact locator called on its own
\* file names of each kind (complete, in-progress) a directory may hold
MaxFiles == 2
\* modification times are 1..MaxStamp
MaxStamp == 2

probe_dir == <<"probe">>

\* an entry of the directory: absent, or a regular file or subdirectory with an mtime
Absent == [is_file |-> FALSE, mtime |-> 0]

EntryStates ==
    {Absent} \cup [is_file : BOOLEAN, mtime : 1..MaxStamp]

\* a name is a number and the ".inprogress" suffix it has or has not
EntryNames == (1..MaxFiles) \X BOOLEAN

Listings == [EntryNames -> EntryStates]

Entries(listing) ==
    {[id |-> n[1], inprogress |-> n[2], is_file |-> listing[n].is_file,
      mtime |-> listing[n].mtime] : n \in {m \in EntryNames : listing[m] # Absent}}

\* a spark-events directory with any content, or a run directory without one
InitFind ==
    /\ AtRest
    /\ \E present \in BOOLEAN, listing \in Listings :
          /\ dirs = IF present THEN Mkdir(probe_dir \o <<"spark-events">>) ELSE {}
          /\ eventlogs = IF present THEN Put(<<>>, probe_dir, Entries(listing)) ELSE <<>>
          /\ present \/ \A n \in EntryNames : listing[n] = Absent
    /\ call = [fn |-> "_find_single_eventlog", eventlog_dir |-> probe_dir]
    /\ result = Pending

find_single_eventlog ==
    /\ call.fn = "_find_single_eventlog"
    /\ ~result.done
    /\ \E p \in _find_single_eventlog(call.eventlog_dir) : result' = Returned(p)
    /\ UNCHANGED call
    /\ UNCHANGED orchestrator

NextFind == find_single_eventlog

SpecFind == InitFind /\ [][NextFind]_vars

\* ------------------------------------------------------------------ claims
IsLaunch(e, cmd) == e.ev = "launch" /\ e.cmd = cmd

IsExit(e, cmd) == e.ev = "exit" /\ e.cmd = cmd

Last(q) == q[Len(q)]

\* the lifecycle commands of this invocation, in launch order
Lifecycle == SelectSeq(log, LAMBDA e : e.ev = "launch" /\ e.cmd \in {"stop", "start"})

\* C1: with restart enabled the lifecycle commands alternate stop, start, stop, ...
\* beginning with stop; the event after a stop's launch is that stop's exit, and
\* after a stop's exit, whatever its code, the start is the next thing launched
\* (the orchestrator stands ready to launch it and is not aborted).
C1_LifecycleAlternation ==
    args.restart_cluster =>
        /\ \A i \in 1..Len(Lifecycle) :
              Lifecycle[i].cmd = IF i % 2 = 1 THEN "stop" ELSE "start"
        /\ \A i \in 1..Len(log) :
              IsLaunch(log[i], "stop") =>
                 IF i = Len(log)
                    THEN pc = "wait_stop" /\ \E c \in inflight : c.cmd = "stop"
                    ELSE IsExit(log[i + 1], "stop")
        /\ \A i \in 1..Len(log) :
              IsExit(log[i], "stop") =>
                 IF i = Len(log)
                    THEN /\ pc = "after_stop"
                         /\ inflight = {}
                         /\ ENABLED (run_ablation_start \/ run_sensitivity_start)
                    ELSE IsLaunch(log[i + 1], "start") /\ log[i + 1].conf = log[i].conf

\* a stop that failed was followed by its start, and a second cycle has begun
C1_Witness ==
    /\ args.restart_cluster
    /\ Len(Lifecycle) >= 3
    /\ pc = "wait_start"
    /\ loc.rc # 0
    /\ IsExit(log[Len(log) - 1], "stop")
    /\ IsLaunch(Last(log), "start")

FailedStart(l) == \E i \in 1..Len(l) : IsExit(l[i], "start") /\ l[i].rc # 0

\* C2: a start that exits non-zero is the last event of the invocation: the
\* process has ended with a non-zero status, nothing is launched or written after
\* it, and the step that aborts leaves every row and snapshot as it was.
C2_StartFailureAborts ==
    /\ [](\A i \in 1..Len(log) :
             (IsExit(log[i], "start") /\ log[i].rc # 0) =>
                 i = Len(log) /\ pc = "exited" /\ status # 0 /\ inflight = {})
    /\ [][FailedStart(log') => (csv' = csv /\ snapshots' = snapshots)]_vars

\* a start failed after rows and snapshots had been written for an earlier variant
C2_Witness ==
    /\ FailedStart(log)
    /\ DOMAIN snapshots # {}
    /\ \E p \in DOMAIN csv : Len(csv[p]) >= 2

csv_path ==
    IF args.cmd = "ablation" THEN args.out \o <<"ablation.csv">>
    ELSE sweep_root \o <<"sensitivity.csv">>

\* index of the next workload launch after event i (Len(log) + 1 if there is none)
NextSubmit(i) ==
    CHOOSE j \in (i + 1)..(Len(log) + 1) :
        /\ j = Len(log) + 1 \/ IsLaunch(log[j], "submit")
        /\ \A k \in (i + 1)..(j - 1) : ~IsLaunch(log[k], "submit")

\* the snapshot and row writes between event i and the next workload launch
WritesAfter(i) ==
    SelectSeq(SubSeq(log, i + 1, NextSubmit(i) - 1),
              LAMBDA e : e.ev \in {"snapshot", "row"})

\* C3: after a workload exits with any code, exactly one snapshot and then exactly
\* one row are written before anything else is launched, both carry that exit code
\* (in the history and on disk), the invocation is not aborted and the loop goes on.
C3_EveryRunRecorded ==
    \A i \in 1..Len(log) :
        IsExit(log[i], "submit") =>
            LET W == WritesAfter(i)
                j == NextSubmit(i)
                rc == log[i].rc
            IN  /\ Len(W) <= 2
                /\ Len(W) >= 1 => W[1].ev = "snapshot" /\ W[1].rc = rc
                /\ Len(W) = 2 => W[2].ev = "row" /\ W[2].rc = rc
                /\ (j <= Len(log) \/ pc \in {"exited", "rep", "variant", "value",
                                             "wait_stop", "after_stop", "wait_start"})
                      => Len(W) = 2
                /\ \A k \in (i + 1)..(j - 1) :
                      log[k].ev = "launch" /\ log[k].cmd \in {"stop", "start"} => Len(W) = 2
                /\ Len(W) < 2 =>
                      /\ pc \in {"after_submit", "wait_parse", "snapshot", "row"}
                      /\ status = 0
                /\ (j = Len(log) + 1 /\ Len(W) >= 1) =>
                      /\ loc.run_dir \in DOMAIN snapshots
                      /\ snapshots[loc.run_dir].exit_code = rc
                /\ (j = Len(log) + 1 /\ Len(W) = 2) =>
                      /\ csv_path \in DOMAIN csv
                      /\ Last(csv[csv_path]).kind = "row"
                      /\ Last(csv[csv_path]).cells["exit_code"] = rc
                      /\ pc = "exited" => status # 1 \/ FailedStart(log)
                /\ (Last(log).ev = "row" /\ j = Len(log) + 1) =>
                      /\ pc \in {"rep", "variant", "value"} \/ (pc = "exited" /\ status = 0)
                      /\ pc = "rep" => ENABLED (run_ablation_rep \/ run_sensitivity_rep)

\* a workload that exited 137 was recorded and the next workload has been launched
C3_Witness ==
    \E i \in 1..Len(log) :
        /\ IsExit(log[i], "submit")
        /\ log[i].rc = 137
        /\ NextSubmit(i) <= Len(log)
        /\ Len(WritesAfter(i)) = 2

\* C4: at most one external child process is in flight, and while one is in
\* flight the orchestrator is blocked waiting for it.
C4_OneChildAtATime ==
    /\ Cardinality(inflight) <= 1
    /\ inflight # {} => pc \in {"wait_stop", "wait_start", "wait_submit", "wait_parse"}

\* a workload is in flight after a cluster start of the same invocation has exited
C4_Witness ==
    /\ \E c \in inflight : c.cmd = "submit"
    /\ \E i \in 1..Len(log) : IsExit(log[i], "start")

\* the targets of the invocation in the order the caller gave them
CallerOrder ==
    IF args.cmd = "sensitivity" THEN args.values
    ELSE IF args.variants = <<>> THEN VariantOrder ELSE args.variants

SubmitLaunches == SelectSeq(log, LAMBDA e : IsLaunch(e, "submit"))

\* C5: an invocation that ends normally (pre-flight passed, every start succeeded)
\* over V targets and R repeats has launched the workload exactly V*R times, once
\* per (target, repeat), and leaves exactly V*R rows and V*R snapshots.
C5_ExactlyVRRunsRecorded ==
    (pc = "exited" /\ status = 0) =>
        LET V == Len(CallerOrder)
            R == args.repeats
        IN  /\ Len(SubmitLaunches) = V * R
            /\ {<<SubmitLaunches[k].vi, SubmitLaunches[k].rep>> : k \in 1..Len(SubmitLaunches)}
                  = (1..V) \X (0..(R - 1))
            /\ (IF csv_path \in DOMAIN csv THEN Len(csv[csv_path]) - 1 ELSE 0) = V * R
            /\ Cardinality(DOMAIN snapshots) = V * R

InvalidRequest ==
    \/ args.cmd = "ablation" /\ \E i \in 1..Len(args.variants) :
                                    args.variants[i] \notin DOMAIN _variants
    \/ args.cmd = "sensitivity" /\ args.sweep \notin {"cxl-capacity", "align", "working-set-fit"}

\* C6: when a requested variant name is unknown (anywhere in the list) or the
\* sweep kind is unsupported, no child process is ever launched and the
\* invocation can only end with a non-zero status.
C6_UnknownNameBeforeAnyLaunch ==
    InvalidRequest =>
        /\ log = <<>>
        /\ inflight = {}
        /\ serial = 0
        /\ pc \in {"setup", "value", "exited"}
        /\ pc = "value" => vi = 1
        /\ pc = "exited" => status # 0

\* the unknown name came after a valid one and the invocation returned 2
C6_Witness ==
    /\ args.cmd = "ablation"
    /\ args.variants = <<"ultrashuffle-full", "bogus">>
    /\ files_ok.scripts
    /\ pc = "exited"
    /\ status = 2

\* C7: an invocation that ends with a pre-flight error (status 2) has created no
\* directory: the disk had no results root when it started and has none now.
C7_PreflightCreatesNothing ==
    (pc = "exited" /\ status = 2) => dirs = {}

\* C8: every tabular file has exactly one header line, and it is the first line.
C8_SingleHeaderFirst ==
    \A p \in DOMAIN csv :
        /\ Len(csv[p]) >= 1
        /\ csv[p][1].kind = "header"
        /\ \A i \in 2..Len(csv[p]) : csv[p][i].kind = "row" /\ csv[p][i].fields = csv[p][1].fields

\* a later invocation has appended to a file that an earlier one created
C8_Witness ==
    /\ inv >= 2
    /\ Len(log) > 0
    /\ Last(log).ev = "row"
    /\ Len(SelectSeq(log, LAMBDA e : e.ev = "row")) = 1
    /\ csv_path \in DOMAIN csv
    /\ Len(csv[csv_path]) >= 3

TargetColumn == IF args.cmd = "sensitivity" THEN "value" ELSE "variant"

\* C9: an append leaves every earlier line of every tabular file unchanged, and
\* the rows stand in execution order: targets in caller order, repeats 0, 1, ...
C9_AppendOnlyInCallerOrder ==
    /\ [](\A p \in DOMAIN csv :
             /\ p = csv_path
             /\ \A k \in 1..(Len(csv[p]) - 1) :
                   /\ csv[p][k + 1].cells[TargetColumn]
                         = CallerOrder[((k - 1) \div args.repeats) + 1]
                   /\ csv[p][k + 1].cells["repeat"] = (k - 1) % args.repeats)
    /\ [][\A p \in DOMAIN csv :
             /\ p \in DOMAIN csv'
             /\ Len(csv'[p]) >= Len(csv[p])
             /\ SubSeq(csv'[p], 1, Len(csv[p])) = csv[p]]_vars

\* two variants given against the registry's and the alphabet's order, both recorded
C9_Witness ==
    /\ args.variants \in {<<"no-remote-cache", "ultrashuffle-full">>,
                          <<"ultrashuffle-full", "no-remote-cache">>}
    /\ csv_path \in DOMAIN csv
    /\ Len(csv[csv_path]) = 3
    /\ csv[csv_path][2].cells["variant"] = args.variants[1]
    /\ csv[csv_path][3].cells["variant"] = args.variants[2]

\* C10: a run.json that has been written is never changed again.
C10_SnapshotsImmutable ==
    [][\A d \in DOMAIN snapshots :
          d \in DOMAIN snapshots' /\ snapshots'[d] = snapshots[d]]_vars

\* ------------------------------------------------------- telemetry extractor
\* JSON values as json.loads returns them.  A key that is absent from an object
\* reads as null: every access in parse_eventlog is a .get(key).
Null == [t |-> "null"]

JBool(b) == [t |-> "bool", n |-> IF b THEN 1 ELSE 0]

JInt(n) == [t |-> "int", n |-> n]

\* a finite float that is not a whole number; int() truncates it to n
JFloat(n) == [t |-> "float", n |-> n]

\* NaN, Infinity, -Infinity: json.loads accepts them, int() raises on them
JNaN == [t |-> "nan"]

\* a string int() accepts, with the value n
JNumStr(n) == [t |-> "numstr", n |-> n]

\* any other string
JStr(str) == [t |-> "str", s |-> str]

JList(len) == [t |-> "list", len |-> len]

JDict(d) == [t |-> "dict", d |-> d]

EmptyDict == JDict(<<>>)

\* bool(v)
Truthy(v) ==
    CASE v.t = "null" -> FALSE
      [] v.t = "bool" -> v.n = 1
      [] v.t = "int" -> v.n # 0
      [] v.t = "str" -> v.s # ""
      [] v.t = "list" -> v.len > 0
      [] v.t = "dict" -> DOMAIN v.d # {}
      [] OTHER -> TRUE

\* v or w
Or(v, w) == IF Truthy(v) THEN v ELSE w

\* dct.get(key) of a dict
get(dct, key) == IF key \in DOMAIN dct.d THEN dct.d[key] ELSE Null

\* an exception that leaves the function
Raise == [t |-> "raise"]

\* lines 8-18: None gives the default, bool/int/float go through int() unguarded,
\* anything else goes through int() with every exception turned into the default
_to_int(value, default) ==
    CASE value.t = "null" -> default
      [] value.t \in {"bool", "int", "float", "numstr"} -> JInt(value.n)
      [] value.t = "nan" -> Raise
      [] OTHER -> default

\* the locals of parse_eventlog (lines 31-51)
NoStage ==
    [name |-> Null, submission_time_ms |-> Null, completion_time_ms |-> Null,
     num_tasks |-> Null]

InitialCounters ==
    [raised |-> FALSE, app_start_ts |-> Null, app_end_ts |-> Null, app_id |-> Null,
     app_name |-> Null, task_count |-> 0, task_failed |-> 0, exec_run_time_ms |-> 0,
     jvm_gc_time_ms |-> 0, shuffle_write_bytes |-> 0, shuffle_write_records |-> 0,
     shuffle_write_time_ns |-> 0, shuffle_read_remote_bytes |-> 0,
     shuffle_read_local_bytes |-> 0, shuffle_read_records |-> 0,
     shuffle_read_fetch_wait_ms |-> 0, stages |-> <<>>]

\* an exception left the loop: there is no summary
Raised == [raised |-> TRUE]

\* lines 64-67
application_start(acc, evt) ==
    LET ts == _to_int(get(evt, "Timestamp"), acc.app_start_ts)
    IN  IF ts = Raise THEN Raised
        ELSE [acc EXCEPT !.app_start_ts = ts,
                         !.app_id = Or(get(evt, "App ID"), acc.app_id),
                         !.app_name = Or(get(evt, "App Name"), acc.app_name)]

\* lines 68-69
application_end(acc, evt) ==
    LET ts == _to_int(get(evt, "Timestamp"), acc.app_end_ts)
    IN  IF ts = Raise THEN Raised ELSE [acc EXCEPT !.app_end_ts = ts]

StageOf(acc, sid) == IF sid \in DOMAIN acc.stages THEN acc.stages[sid] ELSE NoStage

\* the name and the submission time are taken from the event alone
stage_submitted_resetting(acc, evt) ==
    LET info == Or(get(evt, "Stage Info"), EmptyDict)
    IN  IF info.t # "dict" THEN Raised
        ELSE LET sid == _to_int(get(info, "Stage ID"), Null)
             IN  IF sid = Raise THEN Raised
                 ELSE IF sid = Null THEN acc
                 ELSE LET old == StageOf(acc, sid.n)
                          sub == _to_int(get(info, "Submission Time"), Null)
                      IN  IF sub = Raise THEN Raised
                          ELSE [acc EXCEPT !.stages =
                                   Put(acc.stages, sid.n,
                                       [old EXCEPT !.name = Or(get(info, "Stage Name"), Null),
                                                   !.submission_time_ms = sub])]

\* lines 70-79
stage_submitted(acc, evt) ==
    LET info == Or(get(evt, "Stage Info"), EmptyDict)
    IN  IF info.t # "dict" THEN Raised
        ELSE LET sid == _to_int(get(info, "Stage ID"), Null)
             IN  IF sid = Raise THEN Raised
                 ELSE IF sid = Null THEN acc
                 ELSE LET old == StageOf(acc, sid.n)
                          sub == _to_int(get(info, "Submission Time"), old.submission_time_ms)
                      IN  IF sub = Raise THEN Raised
                          ELSE [acc EXCEPT !.stages =
                                   Put(acc.stages, sid.n,
                                       [old EXCEPT !.name = Or(get(info, "Stage Name"), old.name),
                                                   !.submission_time_ms = sub])]

\* lines 80-92
stage_completed(acc, evt) ==
    LET info == Or(get(evt, "Stage Info"), EmptyDict)
    IN  IF info.t # "dict" THEN Raised
        ELSE LET sid == _to_int(get(info, "Stage ID"), Null)
             IN  IF sid = Raise THEN Raised
                 ELSE IF sid = Null THEN acc
                 ELSE LET old == StageOf(acc, sid.n)
                          comp == _to_int(get(info, "Completion Time"), old.completion_time_ms)
                          num == _to_int(get(info, "Number of Tasks"), old.num_tasks)
                      IN  IF comp = Raise \/ num = Raise THEN Raised
                          ELSE [acc EXCEPT !.stages =
                                   Put(acc.stages, sid.n,
                                       [old EXCEPT !.name = Or(get(info, "Stage Name"), old.name),
                                                   !.completion_time_ms = comp,
                                                   !.num_tasks = num])]

\* a task counts as failed unless its reason is "Success"
task_end_unless_success(acc, evt) ==
    LET reason == Or(get(evt, "Task End Reason"), EmptyDict)
        failed == reason.t = "dict" /\ get(reason, "Reason") # JStr("Success")
        metrics == Or(get(evt, "Task Metrics"), EmptyDict)
    IN  IF metrics.t # "dict" THEN Raised
        ELSE LET sw == Or(get(metrics, "Shuffle Write Metrics"), EmptyDict)
                 sr == Or(get(metrics, "Shuffle Read Metrics"), EmptyDict)
             IN  IF sw.t # "dict" \/ sr.t # "dict" THEN Raised
                 ELSE LET run == _to_int(get(metrics, "Executor Run Time"), JInt(0))
                          gc == _to_int(get(metrics, "JVM GC Time"), JInt(0))
                          wb == _to_int(get(sw, "Shuffle Bytes Written"), JInt(0))
                          wr == _to_int(get(sw, "Shuffle Records Written"), JInt(0))
                          wt == _to_int(get(sw, "Shuffle Write Time"), JInt(0))
                          rr == _to_int(get(sr, "Remote Bytes Read"), JInt(0))
                          rl == _to_int(get(sr, "Local Bytes Read"), JInt(0))
                          rn == _to_int(get(sr, "Records Read"), JInt(0))
                          rw == _to_int(get(sr, "Fetch Wait Time"), JInt(0))
                      IN  IF Raise \in {run, gc, wb, wr, wt, rr, rl, rn, rw} THEN Raised
                          ELSE [acc EXCEPT
                                  !.task_count = @ + 1,
                                  !.task_failed = IF failed THEN @ + 1 ELSE @,
                                  !.exec_run_time_ms = @ + run.n,
                                  !.jvm_gc_time_ms = @ + gc.n,
                                  !.shuffle_write_bytes = @ + wb.n,
                                  !.shuffle_write_records = @ + wr.n,
                                  !.shuffle_write_time_ns = @ + wt.n,
                                  !.shuffle_read_remote_bytes = @ + rr.n,
                                  !.shuffle_read_local_bytes = @ + rl.n,
                                  !.shuffle_read_records = @ + rn.n,
                                  !.shuffle_read_fetch_wait_ms = @ + rw.n]

\* lines 93-112
task_end(acc, evt) ==
    LET reason == Or(get(evt, "Task End Reason"), EmptyDict)
        failed == reason.t = "dict" /\ get(reason, "Reason") \notin {Null, JStr("Success")}
        metrics == Or(get(evt, "Task Metrics"), EmptyDict)
    IN  IF metrics.t # "dict" THEN Raised
        ELSE LET sw == Or(get(metrics, "Shuffle Write Metrics"), EmptyDict)
                 sr == Or(get(metrics, "Shuffle Read Metrics"), EmptyDict)
             IN  IF sw.t # "dict" \/ sr.t # "dict" THEN Raised
                 ELSE LET run == _to_int(get(metrics, "Executor Run Time"), JInt(0))
                          gc == _to_int(get(metrics, "JVM GC Time"), JInt(0))
                          wb == _to_int(get(sw, "Shuffle Bytes Written"), JInt(0))
                          wr == _to_int(get(sw, "Shuffle Records Written"), JInt(0))
                          wt == _to_int(get(sw, "Shuffle Write Time"), JInt(0))
                          rr == _to_int(get(sr, "Remote Bytes Read"), JInt(0))
                          rl == _to_int(get(sr, "Local Bytes Read"), JInt(0))
                          rn == _to_int(get(sr, "Records Read"), JInt(0))
                          rw == _to_int(get(sr, "Fetch Wait Time"), JInt(0))
                      IN  IF Raise \in {run, gc, wb, wr, wt, rr, rl, rn, rw} THEN Raised
                          ELSE [acc EXCEPT
                                  !.task_count = @ + 1,
                                  !.task_failed = IF failed THEN @ + 1 ELSE @,
                                  !.exec_run_time_ms = @ + run.n,
                                  !.jvm_gc_time_ms = @ + gc.n,
                                  !.shuffle_write_bytes = @ + wb.n,
                                  !.shuffle_write_records = @ + wr.n,
                                  !.shuffle_write_time_ns = @ + wt.n,
                                  !.shuffle_read_remote_bytes = @ + rr.n,
                                  !.shuffle_read_local_bytes = @ + rl.n,
                                  !.shuffle_read_records = @ + rn.n,
                                  !.shuffle_read_fetch_wait_ms = @ + rw.n]

\* lines 54-112: one line of the file.  A line is blank, is no JSON document,
\* or is a JSON document with the value json.loads returns for it.
parse_line(acc, line) ==
    IF line.kind # "json" THEN acc
    ELSE IF line.value.t # "dict" THEN Raised
    ELSE LET evt == line.value
             etype == get(evt, "Event")
         IN  IF etype = JStr("SparkListenerApplicationStart") THEN application_start(acc, evt)
             ELSE IF etype = JStr("SparkListenerApplicationEnd") THEN application_end(acc, evt)
             ELSE IF etype = JStr("SparkListenerStageSubmitted") THEN stage_submitted(acc, evt)
             ELSE IF etype = JStr("SparkListenerStageCompleted") THEN stage_completed(acc, evt)
             ELSE IF etype = JStr("SparkListenerTaskEnd") THEN task_end(acc, evt)
             ELSE acc

RECURSIVE parse_lines(_, _)
parse_lines(acc, lines) ==
    IF lines = <<>> \/ acc.raised THEN acc
    ELSE parse_lines(parse_line(acc, Head(lines)), Tail(lines))

\* the difference is taken whatever the order of the two timestamps
duration_unordered(start, end) ==
    IF start.t = "int" /\ end.t = "int" THEN JInt(end.n - start.n) ELSE Null

\* lines 118-120 and 132-134: end - start when both are ints and end >= start
duration(start, end) ==
    IF start.t = "int" /\ end.t = "int" /\ end.n >= start.n
        THEN JInt(end.n - start.n)
    ELSE Null

\* the elements of a finite set of integers in descending order
SortedSeq_descending(S) ==
    [k \in 1..Cardinality(S) |-> CHOOSE x \in S : Cardinality({y \in S : y > x}) = k - 1]

RECURSIVE SortedSeq(_)
\* sorted(...): the elements of a finite set of integers in ascending order
SortedSeq(S) ==
    IF S = {} THEN <<>>
    ELSE LET m == CHOOSE x \in S : \A y \in S : x <= y
         IN  <<m>> \o SortedSeq(S \ {m})

\* a stage without a duration is given the duration 0
stage_rows_zero_duration(stages) ==
    LET sids == SortedSeq(DOMAIN stages)
    IN  [k \in 1..Len(sids) |->
            [stage_id |-> sids[k],
             name |-> stages[sids[k]].name,
             submission_time_ms |-> stages[sids[k]].submission_time_ms,
             completion_time_ms |-> stages[sids[k]].completion_time_ms,
             duration_ms |-> Or(duration(stages[sids[k]].submission_time_ms,
                                         stages[sids[k]].completion_time_ms), JInt(0)),
             num_tasks |-> stages[sids[k]].num_tasks]]

\* lines 114-130
stage_rows(stages) ==
    LET sids == SortedSeq(DOMAIN stages)
    IN  [k \in 1..Len(sids) |->
            [stage_id |-> sids[k],
             name |-> stages[sids[k]].name,
             submission_time_ms |-> stages[sids[k]].submission_time_ms,
             completion_time_ms |-> stages[sids[k]].completion_time_ms,
             duration_ms |-> duration(stages[sids[k]].submission_time_ms,
                                      stages[sids[k]].completion_time_ms),
             num_tasks |-> stages[sids[k]].num_tasks]]

\* lines 132-155: the summary
summary_of(acc) ==
    [app_id |-> acc.app_id,
     app_name |-> acc.app_name,
     app_start_ts_ms |-> acc.app_start_ts,
     app_end_ts_ms |-> acc.app_end_ts,
     app_duration_ms |-> duration(acc.app_start_ts, acc.app_end_ts),
     tasks_total |-> acc.task_count,
     tasks_failed |-> acc.task_failed,
     executor_run_time_ms_sum |-> acc.exec_run_time_ms,
     jvm_gc_time_ms_sum |-> acc.jvm_gc_time_ms,
     shuffle_write_bytes_sum |-> acc.shuffle_write_bytes,
     shuffle_write_records_sum |-> acc.shuffle_write_records,
     shuffle_write_time_ns_sum |-> acc.shuffle_write_time_ns,
     shuffle_read_remote_bytes_sum |-> acc.shuffle_read_remote_bytes,
     shuffle_read_local_bytes_sum |-> acc.shuffle_read_local_bytes,
     shuffle_read_bytes_sum |-> acc.shuffle_read_remote_bytes + acc.shuffle_read_local_bytes,
     shuffle_read_records_sum |-> acc.shuffle_read_records,
     shuffle_read_fetch_wait_ms_sum |-> acc.shuffle_read_fetch_wait_ms,
     stages |-> stage_rows(acc.stages)]

\* the call ended with an exception instead of a value
Thrown == [done |-> TRUE, thrown |-> TRUE]

\* parse_eventlog(path) for a file with the given lines
parse_eventlog(lines) ==
    LET acc == parse_lines(InitialCounters, lines)
    IN  IF acc.raised THEN Thrown ELSE Returned(summary_of(acc))

parse_eventlog_call ==
    /\ call.fn = "parse_eventlog"
    /\ ~result.done
    /\ result' = parse_eventlog(call.lines)
    /\ UNCHANGED call
    /\ UNCHANGED orchestrator

NextParse == parse_eventlog_call

\* ---------------------------------------- logs of application start and end
\* longest log drawn as input
MaxEvents == 3

Blank == [kind |-> "blank"]

NotJson == [kind |-> "garbage"]

Json(v) == [kind |-> "json", value |-> v]

\* what the "Timestamp" of an event may be
Timestamps ==
    {Null, JInt(1000), JInt(4500), JBool(TRUE), JFloat(4500), JNumStr(1000), JStr("soon"),
     JNaN}

AppEvents ==
    {Json(JDict([Event |-> JStr(e), Timestamp |-> ts])) :
        e \in {"SparkListenerApplicationStart", "SparkListenerApplicationEnd"},
        ts \in Timestamps}

AppLines == AppEvents \cup {Blank, NotJson, Json(JDict([Event |-> JStr("SparkListenerLogStart")]))}

InitAppEvents ==
    /\ AtRest
    /\ dirs = {}
    /\ eventlogs = <<>>
    /\ \E lines \in UNION {[1..n -> AppLines] : n \in 0..MaxEvents} :
          call = [fn |-> "parse_eventlog", lines |-> lines]
    /\ result = Pending

SpecAppEvents == InitAppEvents /\ [][NextParse]_vars

\* ------------------------------------------------------------------- C11
\* the regular files of the directory the locator was called on
RegularFiles ==
    IF (call.eventlog_dir \o <<"spark-events">>) \in dirs
    THEN {p \in eventlogs[call.eventlog_dir] : p.is_file} ELSE {}

CompleteFiles == {p \in RegularFiles : ~p.inprogress}

PartialFiles == {p \in RegularFiles : p.inprogress}

Newest(p, fs) == p \in fs /\ \A q \in fs : q.mtime <= p.mtime

\* C11: with at least one complete file the locator returns a complete file of
\* maximal mtime among the complete ones (never an in-progress one, however
\* new); with only in-progress files it returns an in-progress file of maximal
\* mtime; with no regular file, or no directory, it returns none.
C11_CompleteBeforeInProgress ==
    (call.fn = "_find_single_eventlog" /\ result.done) =>
        IF CompleteFiles # {}
            THEN result.value # None /\ Newest(result.value[1], CompleteFiles)
        ELSE IF PartialFiles # {}
            THEN result.value # None /\ Newest(result.value[1], PartialFiles)
        ELSE result.value = None

\* a complete file was returned although an in-progress file is newer
C11_Witness ==
    /\ call.fn = "_find_single_eventlog"
    /\ result.done
    /\ result.value # None
    /\ ~result.value[1].inprogress
    /\ Cardinality(CompleteFiles) > 1
    /\ \E q \in PartialFiles : q.mtime > result.value[1].mtime

\* ------------------------------------------------------------------- C12
\* positions of the row writes in the history; the k-th one wrote line k + 1
RowIdx == SelectSeq([i \in 1..Len(log) |-> i], LAMBDA i : log[i].ev = "row")

MetricColumns ==
    [app_duration_ms |-> "app_duration_ms", shuffle_write_bytes |-> "shuffle_write_bytes_sum",
     shuffle_read_bytes |-> "shuffle_read_bytes_sum"]

\* C12: the extractor is started only for a run whose artifact was located; a
\* row carries the three metrics exactly when the extractor was started and
\* succeeded, otherwise its metric cells are empty (not zero); in every case the
\* snapshot and the row are written and the invocation goes on unaborted.
C12_MetricsOnlyFromExtraction ==
    /\ pc = "wait_parse" => loc.eventlog_path # None
    /\ \A k \in 1..Len(RowIdx) :
          LET j == RowIdx[k]
              cells == csv[csv_path][k + 1].cells
              attempted == log[j - 2].cmd = "parse"
              ok == attempted /\ log[j - 2].rc = 0
          IN  /\ log[j - 1].ev = "snapshot"
              /\ IF attempted
                    THEN /\ IsExit(log[j - 2], "parse")
                         /\ IsLaunch(log[j - 3], "parse")
                         /\ IsExit(log[j - 4], "submit")
                         /\ cells["eventlog"] # None
                    ELSE /\ IsExit(log[j - 2], "submit")
                         /\ cells["eventlog"] = None
              /\ \A c \in DOMAIN MetricColumns :
                    cells[c] = IF ok THEN SampleSummary[MetricColumns[c]] ELSE ""
              /\ IF j = Len(log)
                    THEN pc \in {"rep", "variant", "value", "exited"} /\ status = 0
                    ELSE log[j + 1].ev = "launch"

\* a failed extraction was recorded with empty metrics, the next repeat ran and,
\* having left no artifact, was recorded with empty metrics too
C12_Witness ==
    /\ Len(RowIdx) >= 2
    /\ log[RowIdx[1] - 2].cmd = "parse"
    /\ log[RowIdx[1] - 2].rc # 0
    /\ csv[csv_path][2].cells["eventlog"] # None
    /\ csv[csv_path][2].cells["app_duration_ms"] = ""
    /\ IsExit(log[RowIdx[2] - 2], "submit")
    /\ csv[csv_path][3].cells["eventlog"] = None
    /\ csv[csv_path][3].cells["shuffle_read_bytes"] = ""
    /\ csv[csv_path][3].cells["repeat"] = 1

\* ------------------------------------------------------------------- C13
\* the key=value settings a configuration file holds, in file order
ConfPairs(file) ==
    LET lines == splitlines(file)
        idx == SelectSeq(Indices(lines), LAMBDA i : KeyOf(lines[i]) # None)
    IN  [k \in 1..Len(idx) |->
            [key |-> KeyOf(lines[idx[k]])[1],
             value |-> key_re(rstrip_newline(lines[idx[k]])).value]]

SweptKeys ==
    [cxl_capacity |-> {"scache.memory.offHeap.size", "scache.storage.cxl.shared.pool.size"},
     align |-> {"scache.daemon.ipc.pool.align", "scache.storage.cxl.shared.pool.align"}]

SweptKeysOf(sweep) == IF sweep = "cxl-capacity" THEN SweptKeys.cxl_capacity ELSE SweptKeys.align

\* C13: the configuration generated for a cxl-capacity or align value v sets
\* both keys of the sweep to exactly v, and every other key has the settings
\* it has in the base configuration.
C13_SweepSetsBothKeysOnly ==
    (call.fn = "generated_conf" /\ result.done /\ call.sweep \in {"cxl-capacity", "align"}) =>
        LET out == ConfPairs(result.value)
            base == ConfPairs(call.base)
            Swept(pair) == \E k \in SweptKeysOf(call.sweep) : pair.key = <<k>>
        IN  /\ \A k \in SweptKeysOf(call.sweep) :
                  /\ \E i \in 1..Len(out) : out[i].key = <<k>>
                  /\ \A i \in 1..Len(out) : out[i].key = <<k>> => out[i].value = <<call.value>>
            /\ SelectSeq(out, LAMBDA pair : ~Swept(pair))
                  = SelectSeq(base, LAMBDA pair : ~Swept(pair))

\* ------------------------------------------------------------------- C14
\* the base vector with the second entry (numKVPairs) replaced by v
WithNumKVPairs(base, v) ==
    [i \in 1..Len(base) |-> IF i = 2 THEN v ELSE base[i]]

\* C14: in a working-set-fit sweep the argument vector of every value is the
\* base vector with numKVPairs alone replaced by that value; the base vector
\* stays what the caller gave, and no configuration is generated.
C14_OnlyNumKVPairsReplaced ==
    (args.cmd = "sensitivity" /\ args.sweep = "working-set-fit") =>
        /\ genconf = <<>>
        /\ \A d \in dirs : \A i \in 1..Len(d) : d[i] # "generated-conf"
        /\ pc \notin {"setup", "exited"} => loc.workload_args_base = args.workload_args
        /\ pc \in {"wait_stop", "after_stop", "wait_start", "rep", "wait_submit",
                    "after_submit", "wait_parse", "snapshot", "row"} =>
              /\ loc.workload_args = WithNumKVPairs(args.workload_args, value_label)
              /\ loc.conf_dir = base_variant.scache_conf_dir
              /\ loc.updates = {}
        /\ \A d \in DOMAIN snapshots :
              /\ snapshots[d].submit_cmd =
                    <<"submit-groupbytest-mn.sh">>
                        \o WithNumKVPairs(args.workload_args, snapshots[d].value)
              /\ snapshots[d].scache_conf_dir = base_variant.scache_conf_dir
              /\ snapshots[d].scache_conf_updates = {}

\* two different values were run one after the other, each with its own numKVPairs
C14_Witness ==
    /\ args.cmd = "sensitivity"
    /\ args.sweep = "working-set-fit"
    /\ Len(args.values) = 2
    /\ args.values[1] # args.values[2]
    /\ \E d1, d2 \in DOMAIN snapshots :
          /\ snapshots[d1].submit_cmd[3] = args.values[1]
          /\ snapshots[d2].submit_cmd[3] = args.values[2]
          /\ snapshots[d1].submit_cmd[2] = snapshots[d2].submit_cmd[2]

\* ------------------------------------------------------------------- C15
\* every update of the set carries the value v
UpdatesOf(v, updates) == updates # {} /\ \A u \in updates : u[2] = v

\* C15: every generated configuration lives in a directory named after one
\* sweep value, was written from the base configuration (which is never
\* written itself) with the updates of that value alone, and the directory a
\* run was started with still holds the configuration of that run's value, so
\* no two distinct values share a directory.
C15_ConfigScopedPerValue ==
    args.cmd = "sensitivity" =>
        /\ base_variant.scache_conf_dir \notin DOMAIN genconf
        /\ \A d \in DOMAIN genconf :
              /\ genconf[d].src = base_variant.scache_conf_dir
              /\ \E i \in 1..Len(args.values) :
                    /\ d = sweep_root \o <<"generated-conf", args.values[i]>>
                    /\ UpdatesOf(args.values[i], genconf[d].updates)
        /\ \A r \in DOMAIN snapshots :
              snapshots[r].scache_conf_updates # {} =>
                  /\ snapshots[r].scache_conf_dir \in DOMAIN genconf
                  /\ genconf[snapshots[r].scache_conf_dir].updates
                        = snapshots[r].scache_conf_updates
                  /\ UpdatesOf(snapshots[r].value, snapshots[r].scache_conf_updates)
        /\ \A r1, r2 \in DOMAIN snapshots :
              (snapshots[r1].scache_conf_updates # {} /\ snapshots[r1].value # snapshots[r2].value)
                  => snapshots[r1].scache_conf_dir # snapshots[r2].scache_conf_dir

\* two distinct values of a configuration sweep have both been run
C15_Witness ==
    /\ args.cmd = "sensitivity"
    /\ args.sweep \in {"cxl-capacity", "align"}
    /\ Cardinality(DOMAIN genconf) = 2
    /\ \E r1, r2 \in DOMAIN snapshots :
          /\ snapshots[r1].value # snapshots[r2].value
          /\ snapshots[r1].scache_conf_dir \in DOMAIN genconf
          /\ snapshots[r2].scache_conf_dir \in DOMAIN genconf

\* ----------------------------------------------------------- C16 .. C19
\* the lines of the source file and of the written file, terminators kept
SourceLines == splitlines(call.src)

OutputLines == splitlines(result.value)

\* the line terminator of a line: CR LF, LF, CR or none (last line)
Terminator(line) ==
    IF Len(line) >= 2 /\ line[Len(line) - 1] = "CR" /\ line[Len(line)] = "LF"
        THEN <<"CR", "LF">>
    ELSE IF Len(line) >= 1 /\ line[Len(line)] \in {"LF", "CR"} THEN <<line[Len(line)]>>
    ELSE <<>>

Body(line) == SubSeq(line, 1, Len(line) - Len(Terminator(line)))

\* the parts of a non-comment key=value line; no match for any other line
Setting(line) == IF is_comment(Body(line)) THEN NoMatch ELSE key_re(Body(line))

Sets(line, key) == Setting(line).matched /\ Setting(line).key = <<key>>

Occurrences(lines, key) == Cardinality({i \in 1..Len(lines) : Sets(lines[i], key)})

Rewritten == call.fn = "_rewrite_kv_conf" /\ result.done

IsPrefix(p, t) == Len(p) <= Len(t) /\ SubSeq(t, 1, Len(p)) = p

\* C16: with an empty update set the written file is identical to the source,
\* whatever its lines and line terminators are.
C16_EmptyUpdatesIdentity ==
    (Rewritten /\ call.updates = <<>>) => result.value = call.src

\* C17: an updated key that is set on k >= 1 lines of the source is set on
\* exactly k lines of the output, each with the new value, and each of these
\* lines is the source line with the value segment alone replaced (leading
\* whitespace, whitespace around "=", trailing whitespace, terminator kept).
C17_UpdatedInPlace ==
    Rewritten =>
        \A n \in 1..Len(call.updates) :
            LET u == call.updates[n]
            IN  Occurrences(SourceLines, u.key) >= 1 =>
                  /\ Occurrences(OutputLines, u.key) = Occurrences(SourceLines, u.key)
                  /\ \A i \in 1..Len(OutputLines) :
                        Sets(OutputLines[i], u.key) => Setting(OutputLines[i]).value = u.value
                  /\ \A i \in 1..Len(SourceLines) :
                        Sets(SourceLines[i], u.key) =>
                            /\ i <= Len(OutputLines)
                            /\ OutputLines[i] =
                                  Setting(SourceLines[i]).g1 \o <<u.key>>
                                      \o Setting(SourceLines[i]).g3 \o u.value
                                      \o Setting(SourceLines[i]).g5
                                      \o Terminator(SourceLines[i])

\* C18: an updated key that no line of the source sets is set on exactly one
\* line of the output, the line key=value of its own, after all source lines.
C18_MissingKeyAppendedOnce ==
    Rewritten =>
        \A n \in 1..Len(call.updates) :
            LET u == call.updates[n]
            IN  Occurrences(SourceLines, u.key) = 0 =>
                  /\ Occurrences(OutputLines, u.key) = 1
                  /\ \E i \in (Len(SourceLines) + 1)..Len(OutputLines) :
                        OutputLines[i] = <<u.key, "=">> \o u.value \o <<"LF">>

\* C19: the output has the source's lines in their order, and every line that
\* is a comment, is no key=value line or sets a key outside the update set is
\* there byte for byte (an unterminated last line as the start of its line).
C19_OtherLinesCopied ==
    Rewritten =>
        /\ Len(OutputLines) >= Len(SourceLines)
        /\ \A i \in 1..Len(SourceLines) :
              (~Setting(SourceLines[i]).matched
                    \/ ~HasKey(call.updates, Setting(SourceLines[i]).key)) =>
                  IF Terminator(SourceLines[i]) = <<>>
                      THEN IsPrefix(SourceLines[i], OutputLines[i])
                      ELSE OutputLines[i] = SourceLines[i]

\* ------------------------------------------------------------------- C20
IsAppEvent(line, name) ==
    line.kind = "json" /\ line.value.t = "dict" /\ get(line.value, "Event") = JStr(name)

\* C20: the summary's application duration is end - start when the summary
\* holds both a start and an end timestamp and end >= start; in every other
\* case it is absent (null), never negative and never filled with zero; a log
\* without start event or without end event has no duration.
C20_AppDurationOnlyWhenOrdered ==
    (call.fn = "parse_eventlog" /\ result.done /\ "value" \in DOMAIN result) =>
        LET start == result.value.app_start_ts_ms
            end == result.value.app_end_ts_ms
            dur == result.value.app_duration_ms
            Has(name) == \E i \in 1..Len(call.lines) : IsAppEvent(call.lines[i], name)
        IN  /\ start.t \in {"null", "int"}
            /\ end.t \in {"null", "int"}
            /\ IF start.t = "int" /\ end.t = "int" /\ end.n >= start.n
                  THEN dur = JInt(end.n - start.n)
                  ELSE dur = Null
            /\ dur # Null => dur.n >= 0
            /\ ~Has("SparkListenerApplicationStart") => start = Null /\ dur = Null
            /\ ~Has("SparkListenerApplicationEnd") => end = Null /\ dur = Null

\* start at 1000 and end at 4500 gave the duration 3500
C20_Witness ==
    /\ call.fn = "parse_eventlog"
    /\ result.done
    /\ "value" \in DOMAIN result
    /\ \E i, j \in 1..Len(call.lines) :
          /\ call.lines[i] = Json(JDict([Event |-> JStr("SparkListenerApplicationStart"),
                                          Timestamp |-> JInt(1000)]))
          /\ call.lines[j] = Json(JDict([Event |-> JStr("SparkListenerApplicationEnd"),
                                          Timestamp |-> JInt(4500)]))
    /\ result.value.app_duration_ms = JInt(3500)

\* ------------------------------------------------- logs of stage events
\* longest log of stage events drawn as input
MaxStageEvents == 2

\* an object with the given members; a member that is null is left out
Object(members) == JDict([k \in {k \in DOMAIN members : members[k] # Null} |-> members[k]])

\* what the "Stage ID" of a stage event may be
StageIds == {Null, JInt(1), JInt(2), JNumStr(2), JStr("x")}

\* what else the "Stage Info" of a stage event may carry
StagePayloads ==
    {[name |-> Null, sub |-> Null, comp |-> Null, num |-> Null],
     [name |-> JStr("map"), sub |-> JInt(1000), comp |-> Null, num |-> Null],
     [name |-> JStr("reduce"), sub |-> JInt(4500), comp |-> Null, num |-> Null],
     [name |-> Null, sub |-> Null, comp |-> JInt(4500), num |-> JInt(8)],
     [name |-> Null, sub |-> Null, comp |-> JInt(1000), num |-> JInt(4)],
     [name |-> JStr(""), sub |-> JStr("soon"), comp |-> JStr("soon"), num |-> JStr("many")],
     [name |-> JStr("map"), sub |-> JInt(1000), comp |-> JInt(4500), num |-> JInt(8)]}

StageEvent(e, sid, p) ==
    Json(Object("Event" :> JStr(e)
                @@ "Stage Info" :> Object("Stage ID" :> sid
                                          @@ "Stage Name" :> p.name
                                          @@ "Submission Time" :> p.sub
                                          @@ "Completion Time" :> p.comp
                                          @@ "Number of Tasks" :> p.num)))

StageEvents ==
    {StageEvent(e, sid, p) :
        e \in {"SparkListenerStageSubmitted", "SparkListenerStageCompleted"},
        sid \in StageIds,
        p \in StagePayloads}

InitStageEvents ==
    /\ AtRest
    /\ dirs = {}
    /\ eventlogs = <<>>
    /\ \E lines \in UNION {[1..n -> StageEvents] : n \in 0..MaxStageEvents} :
          call = [fn |-> "parse_eventlog", lines |-> lines]
    /\ result = Pending

SpecStageEvents == InitStageEvents /\ [][NextParse]_vars

\* ------------------------------------------------------------------- C21
Summarised == call.fn = "parse_eventlog" /\ result.done /\ "value" \in DOMAIN result

StageRows == result.value.stages

\* C21: in every summary, each stage record's duration is completion minus
\* submission when the record has both timestamps and completion >= submission,
\* and is absent (null) in every other case; no stage record has a negative
\* duration.
C21_StageDurationOnlyWhenOrdered ==
    Summarised =>
        \A k \in 1..Len(StageRows) :
            LET sub == StageRows[k].submission_time_ms
                comp == StageRows[k].completion_time_ms
                dur == StageRows[k].duration_ms
            IN  /\ sub.t \in {"null", "int"}
                /\ comp.t \in {"null", "int"}
                /\ IF sub.t = "int" /\ comp.t = "int" /\ comp.n >= sub.n
                      THEN dur = JInt(comp.n - sub.n)
                      ELSE dur = Null
                /\ dur # Null => dur.n >= 0

\* a stage submitted at 1000 by one event and completed at 4500 by the next
\* has the duration 3500
C21_Witness ==
    /\ Summarised
    /\ Len(call.lines) = 2
    /\ \E k \in 1..Len(StageRows) :
          /\ StageRows[k].submission_time_ms = JInt(1000)
          /\ StageRows[k].completion_time_ms = JInt(4500)
          /\ StageRows[k].duration_ms = JInt(3500)

\* ----------------------------------------- logs of application-start events
\* what identifies the application in an application-start event
AppIdentities ==
    {[id |-> Null, name |-> Null],
     [id |-> JStr("app-1"), name |-> JStr("first")],
     [id |-> JStr("app-2"), name |-> JStr("second")],
     [id |-> JStr("app-3"), name |-> Null]}

AppStartEvents ==
    {Json(Object("Event" :> JStr("SparkListenerApplicationStart")
                 @@ "App ID" :> a.id
                 @@ "App Name" :> a.name
                 @@ "Timestamp" :> ts)) :
        a \in AppIdentities,
        ts \in {Null, JInt(1000), JInt(2000)}}

InitAppStarts ==
    /\ AtRest
    /\ dirs = {}
    /\ eventlogs = <<>>
    /\ \E lines \in UNION {[1..n -> AppStartEvents] : n \in 0..MaxEvents} :
          call = [fn |-> "parse_eventlog", lines |-> lines]
    /\ result = Pending

SpecAppStarts == InitAppStarts /\ [][NextParse]_vars

\* ------------------------------------------------------------------- C22
\* the values of one member in the application-start records that carry it,
\* in the order of the log
Carried(member) ==
    LET starts == SelectSeq(call.lines,
                            LAMBDA l : /\ IsAppEvent(l, "SparkListenerApplicationStart")
                                       /\ get(l.value, member) # Null)
    IN  [i \in 1..Len(starts) |-> get(starts[i].value, member)]

FirstOf(values) == IF values = <<>> THEN Null ELSE values[1]

LastOf(values) == IF values = <<>> THEN Null ELSE values[Len(values)]

\* C22: the summary's application id and name are those of the first
\* application-start record that carries them, and its start timestamp is that
\* of the last application-start record that carries one.
C22_FirstIdentityLatestTimestamp ==
    Summarised =>
        /\ result.value.app_id = FirstOf(Carried("App ID"))
        /\ result.value.app_name = FirstOf(Carried("App Name"))
        /\ result.value.app_start_ts_ms = LastOf(Carried("Timestamp"))

\* ------------------------------------------- logs with lines of every kind
\* JSON documents that are no object: a number, null, a list, a string
NonObjects == {Json(JInt(123)), Json(Null), Json(JList(0)), Json(JStr("x"))}

\* a few event objects, and an object without discriminator
SomeEvents ==
    {Json(Object("Event" :> JStr("SparkListenerApplicationStart") @@ "Timestamp" :> JInt(1000))),
     Json(Object("Event" :> JStr("SparkListenerApplicationEnd") @@ "Timestamp" :> JInt(4500))),
     Json(Object("Event" :> JStr("SparkListenerTaskEnd")
                 @@ "Task Metrics" :> Object("Executor Run Time" :> JInt(7)))),
     StageEvent("SparkListenerStageSubmitted", JInt(1),
                [name |-> JStr("map"), sub |-> JInt(1000), comp |-> Null, num |-> Null]),
     Json(EmptyDict)}

AnyLines == SomeEvents \cup NonObjects \cup {Blank, NotJson}

InitAnyLines ==
    /\ AtRest
    /\ dirs = {}
    /\ eventlogs = <<>>
    /\ \E lines \in UNION {[1..n -> AnyLines] : n \in 0..MaxEvents} :
          call = [fn |-> "parse_eventlog", lines |-> lines]
    /\ result = Pending

SpecAnyLines == InitAnyLines /\ [][NextParse]_vars

\* ------------------------------------------------------------------- C23
\* a line that parses to an event object
IsEventRecord(line) == line.kind = "json" /\ line.value.t = "dict"

\* C23: whatever the lines are (event objects, unparseable text, blank lines,
\* parseable values that are no object), the extraction returns a summary, and
\* it is the summary of the log without the lines that are no event record.
C23_ToleratesEveryLine ==
    (call.fn = "parse_eventlog" /\ result.done) =>
        /\ "value" \in DOMAIN result
        /\ result = parse_eventlog(SelectSeq(call.lines, IsEventRecord))

\* --------------------------------------------------- logs of task-end events
\* longest log of task-end events drawn as input
MaxTaskEvents == 2

\* what a metric field may hold: nothing, an integer, a float with a fraction,
\* a boolean, a numeric string, another string, an object, a list, and a float
\* that is not finite (NaN, or 1e999 which json.loads reads as infinity)
MetricValues ==
    {Null, JInt(7), JFloat(7), JBool(TRUE), JNumStr(7), JStr("soon"),
     Object("n" :> JInt(7)), JList(2), JNaN}

\* what may stand where an object of metrics is expected
Substructures(field) ==
    {Null, JStr("x"), JStr(""), JList(1), JList(0)} \cup {Object(field :> v) : v \in MetricValues}

\* a task that reports a different value in each of the nine metric fields
FullMetrics ==
    Object("Executor Run Time" :> JInt(1)
           @@ "JVM GC Time" :> JInt(2)
           @@ "Shuffle Write Metrics" :> Object("Shuffle Bytes Written" :> JInt(3)
                                                @@ "Shuffle Records Written" :> JInt(4)
                                                @@ "Shuffle Write Time" :> JInt(5))
           @@ "Shuffle Read Metrics" :> Object("Remote Bytes Read" :> JInt(6)
                                               @@ "Local Bytes Read" :> JInt(7)
                                               @@ "Records Read" :> JInt(8)
                                               @@ "Fetch Wait Time" :> JInt(9)))

TaskMetrics ==
    Substructures("Executor Run Time")
        \cup {Object("Shuffle Write Metrics" :> s) : s \in Substructures("Shuffle Bytes Written")}
        \cup {Object("Shuffle Read Metrics" :> s) : s \in Substructures("Remote Bytes Read")}
        \cup {FullMetrics}

\* what the "Task End Reason" may be
TaskEndReasons ==
    {Null, Object("Reason" :> JStr("Success")), Object("Reason" :> JStr("ExceptionFailure")),
     Object("Reason" :> JStr("TaskKilled")), JStr("ExceptionFailure"), EmptyDict}

TaskEnd(reason, metrics) ==
    Json(Object("Event" :> JStr("SparkListenerTaskEnd")
                @@ "Task End Reason" :> reason
                @@ "Task Metrics" :> metrics))

TaskEvents ==
    {TaskEnd(Null, m) : m \in TaskMetrics}
        \cup {TaskEnd(r, FullMetrics) : r \in TaskEndReasons}
        \cup {Json(Object("Event" :> JStr("SparkListenerApplicationStart")
                          @@ "Timestamp" :> JInt(1000))),
              Json(Object("Event" :> JStr("SparkListenerJobStart")
                          @@ "Task End Reason" :> Object("Reason" :> JStr("TaskKilled"))
                          @@ "Task Metrics" :> FullMetrics))}

InitTaskEvents ==
    /\ AtRest
    /\ dirs = {}
    /\ eventlogs = <<>>
    /\ \E lines \in UNION {[1..n -> TaskEvents] : n \in 0..MaxTaskEvents} :
          call = [fn |-> "parse_eventlog", lines |-> lines]
    /\ result = Pending

SpecTaskEvents == InitTaskEvents /\ [][NextParse]_vars

\* ------------------------------------------------------------------- C24
TaskEnds == SelectSeq(call.lines, LAMBDA l : IsAppEvent(l, "SparkListenerTaskEnd"))

\* the member of an object; nothing when the member is missing or when there is
\* no object
Member(v, key) == IF v.t = "dict" /\ key \in DOMAIN v.d THEN v.d[key] ELSE Null

\* the integer a numeric value stands for, zero for every other value
Contribution(v) == IF v.t \in {"int", "float", "bool", "numstr"} THEN v.n ELSE 0

RECURSIVE SumOf(_, _, _)
\* the contributions of one metric field, summed over task-end records
SumOf(tasks, group, field) ==
    IF tasks = <<>> THEN 0
    ELSE LET metrics == Member(Head(tasks).value, "Task Metrics")
             holder == IF group = "" THEN metrics ELSE Member(metrics, group)
         IN  Contribution(Member(holder, field)) + SumOf(Tail(tasks), group, field)

\* C24: the extraction never raises over a metric value of any type, and each
\* sum of the summary is the sum of the numeric values of its field over the
\* task-end records, where a missing or non-numeric field and a missing or
\* non-object substructure count as zero.
C24_CoercionTotalAndZeroDefault ==
    (call.fn = "parse_eventlog" /\ result.done) =>
        /\ "value" \in DOMAIN result
        /\ result.value.executor_run_time_ms_sum = SumOf(TaskEnds, "", "Executor Run Time")
        /\ result.value.jvm_gc_time_ms_sum = SumOf(TaskEnds, "", "JVM GC Time")
        /\ result.value.shuffle_write_bytes_sum =
              SumOf(TaskEnds, "Shuffle Write Metrics", "Shuffle Bytes Written")
        /\ result.value.shuffle_write_records_sum =
              SumOf(TaskEnds, "Shuffle Write Metrics", "Shuffle Records Written")
        /\ result.value.shuffle_write_time_ns_sum =
              SumOf(TaskEnds, "Shuffle Write Metrics", "Shuffle Write Time")
        /\ result.value.shuffle_read_remote_bytes_sum =
              SumOf(TaskEnds, "Shuffle Read Metrics", "Remote Bytes Read")
        /\ result.value.shuffle_read_local_bytes_sum =
              SumOf(TaskEnds, "Shuffle Read Metrics", "Local Bytes Read")
        /\ result.value.shuffle_read_records_sum =
              SumOf(TaskEnds, "Shuffle Read Metrics", "Records Read")
        /\ result.value.shuffle_read_fetch_wait_ms_sum =
              SumOf(TaskEnds, "Shuffle Read Metrics", "Fetch Wait Time")

\* ------------------------------------------------------------------- C25
\* the completion reason of a task-end record, nothing when it has none
ReasonOf(line) == Member(Member(line.value, "Task End Reason"), "Reason")

FailedTaskEnds == SelectSeq(TaskEnds, LAMBDA l : ReasonOf(l) \notin {Null, JStr("Success")})

\* C25: in every summary tasks_total is the number of task-end records and
\* tasks_failed the number of those whose completion reason is present and is
\* not "Success", so 0 <= tasks_failed <= tasks_total; a log without task-end
\* records has zero in every task total and sum.
C25_TaskCounters ==
    Summarised =>
        /\ result.value.tasks_total = Len(TaskEnds)
        /\ result.value.tasks_failed = Len(FailedTaskEnds)
        /\ 0 <= result.value.tasks_failed
        /\ result.value.tasks_failed <= result.value.tasks_total
        /\ TaskEnds = <<>> =>
              \A sum \in {"tasks_total", "tasks_failed", "executor_run_time_ms_sum",
                          "jvm_gc_time_ms_sum", "shuffle_write_bytes_sum",
                          "shuffle_write_records_sum", "shuffle_write_time_ns_sum",
                          "shuffle_read_remote_bytes_sum", "shuffle_read_local_bytes_sum",
                          "shuffle_read_bytes_sum", "shuffle_read_records_sum",
                          "shuffle_read_fetch_wait_ms_sum"} :
                  result.value[sum] = 0

\* of two task-end records, one succeeded and one did not
C25_Witness ==
    /\ Summarised
    /\ Len(TaskEnds) = 2
    /\ ReasonOf(TaskEnds[1]) = JStr("Success")
    /\ ReasonOf(TaskEnds[2]) = JStr("ExceptionFailure")
    /\ result.value.tasks_total = 2
    /\ result.value.tasks_failed = 1

\* ------------------------------------------------------------------- C26
IsStageEvent(line) ==
    \/ IsAppEvent(line, "SparkListenerStageSubmitted")
    \/ IsAppEvent(line, "SparkListenerStageCompleted")

\* the stage id of a stage event, nothing when it has none that is a number
StageIdOf(line) ==
    LET sid == Member(Member(line.value, "Stage Info"), "Stage ID")
    IN  IF sid.t \in {"int", "float", "bool", "numstr"} THEN JInt(sid.n) ELSE Null

\* the distinct stage ids seen in the log
SeenStageIds ==
    {StageIdOf(call.lines[i]).n :
        i \in {i \in 1..Len(call.lines) :
                  IsStageEvent(call.lines[i]) /\ StageIdOf(call.lines[i]) # Null}}

\* C26: in every summary, whatever the order of the stage events, there is
\* exactly one stage record for each distinct stage id seen, the records are in
\* strictly ascending order of stage id, and an event without usable stage id
\* creates no record.
C26_OneRecordPerStageAscending ==
    Summarised =>
        /\ {StageRows[k].stage_id : k \in 1..Len(StageRows)} = SeenStageIds
        /\ Len(StageRows) = Cardinality(SeenStageIds)
        /\ \A k \in 1..(Len(StageRows) - 1) : StageRows[k].stage_id < StageRows[k + 1].stage_id

\* stage 2 was seen before stage 1 and is listed after it
C26_Witness ==
    /\ Summarised
    /\ Len(call.lines) = 2
    /\ StageIdOf(call.lines[1]) = JInt(2)
    /\ StageIdOf(call.lines[2]) = JInt(1)
    /\ Len(StageRows) = 2
    /\ StageRows[1].stage_id = 1
    /\ StageRows[2].stage_id = 2

\* ------------------------------------------------------------------- C27
Submitted == {"SparkListenerStageSubmitted"}

Completed == {"SparkListenerStageCompleted"}

\* the value a stage event carries for a member of its "Stage Info": a
\* non-empty name, the integer of a numeric value, nothing otherwise
CarriedValue(line, member) ==
    LET v == Member(Member(line.value, "Stage Info"), member)
    IN  IF member = "Stage Name" THEN (IF Truthy(v) THEN v ELSE Null)
        ELSE IF v.t \in {"int", "float", "bool", "numstr"} THEN JInt(v.n)
        ELSE Null

\* the value of the last event of the given kinds for the stage that carries
\* the member, nothing when no such event carries it
LastCarried(sid, kinds, member) ==
    LET events == SelectSeq(call.lines,
                            LAMBDA l : /\ \E e \in kinds : IsAppEvent(l, e)
                                       /\ StageIdOf(l) = JInt(sid)
                                       /\ CarriedValue(l, member) # Null)
    IN  IF events = <<>> THEN Null ELSE CarriedValue(events[Len(events)], member)

\* C27 as stated: every field of a stage record holds the value of the last
\* stage-submitted or stage-completed event of that stage that carries it, and
\* is absent only if no event of the stage carries it.
C27_LastWriterWinsEveryField ==
    Summarised =>
        \A k \in 1..Len(StageRows) :
            LET sid == StageRows[k].stage_id
                either == Submitted \cup Completed
            IN  /\ StageRows[k].name = LastCarried(sid, either, "Stage Name")
                /\ StageRows[k].submission_time_ms = LastCarried(sid, either, "Submission Time")
                /\ StageRows[k].completion_time_ms = LastCarried(sid, either, "Completion Time")
                /\ StageRows[k].num_tasks = LastCarried(sid, either, "Number of Tasks")

\* C27 amended: the name of a stage record is that of the last stage-submitted
\* or stage-completed event of the stage that carries a name, its submission
\* timestamp that of the last stage-submitted event that carries one, its
\* completion timestamp and task count those of the last stage-completed event
\* that carries them; a field is absent only if no such event carries it, so a
\* later event that lacks a field never reverts it to absent.
C27_LastWriterWinsPerEventKind ==
    Summarised =>
        \A k \in 1..Len(StageRows) :
            LET sid == StageRows[k].stage_id
            IN  /\ StageRows[k].name = LastCarried(sid, Submitted \cup Completed, "Stage Name")
                /\ StageRows[k].submission_time_ms = LastCarried(sid, Submitted, "Submission Time")
                /\ StageRows[k].completion_time_ms = LastCarried(sid, Completed, "Completion Time")
                /\ StageRows[k].num_tasks = LastCarried(sid, Completed, "Number of Tasks")

\* stage 1 was submitted as "map" at 1000, then an event without name and
\* submission time followed: the record still has both
C27_Witness ==
    /\ Summarised
    /\ Len(call.lines) = 2
    /\ call.lines[1] = StageEvent("SparkListenerStageSubmitted", JInt(1),
                                  [name |-> JStr("map"), sub |-> JInt(1000),
                                   comp |-> Null, num |-> Null])
    /\ call.lines[2] = StageEvent("SparkListenerStageSubmitted", JInt(1),
                                  [name |-> Null, sub |-> Null, comp |-> Null, num |-> Null])
    /\ StageRows[1].name = JStr("map")
    /\ StageRows[1].submission_time_ms = JInt(1000)

\* ------------------------------------------------------------ plot: row filter
\* A cell of a row read by csv.DictReader is a string, or None when the row has
\* no such column.
\* str.strip() of the strings that occur in the rows drawn below
strip(s) ==
    CASE s = " " -> ""
      [] s = " 0 " -> "0"
      [] s = " 3500 " -> "3500"
      [] OTHER -> s

\* a float, as the number of its thousandths
Float(thousandths) == [t |-> "float", milli |-> thousandths]

NaN == [t |-> "nan"]

ValueError == [t |-> "raise"]

\* float(s) of a stripped string
float(s) ==
    CASE s = "0" -> Float(0)
      [] s = "1" -> Float(1000)
      [] s = "0.0" -> Float(0)
      [] s = "3500" -> Float(3500000)
      [] s = "-5" -> Float(-5000)
      [] s = "2.5" -> Float(2500)
      [] s = "nan" -> NaN
      [] OTHER -> ValueError

\* x > 0 for a float or None operand that is not None
Positive(x) == x.t = "float" /\ x.milli > 0

\* plot.py lines 13-24; a cell is None (Null) or a string, never an int or float
_safe_float(value) ==
    IF value = Null THEN Null
    ELSE LET s == strip(value.s)
         IN  IF s = "" THEN Null
             ELSE IF float(s) = ValueError THEN Null
             ELSE float(s)

\* the duration is the application duration alone
_duration_ms_app_only(row) ==
    LET app_ms == _safe_float(row.app_duration_ms)
    IN  IF app_ms # Null /\ Positive(app_ms) THEN app_ms ELSE Null

\* lines 42-49
_duration_ms(row) ==
    LET app_ms == _safe_float(row.app_duration_ms)
        submit_s == _safe_float(row.submit_elapsed_s)
    IN  IF app_ms # Null /\ Positive(app_ms) THEN app_ms
        ELSE IF submit_s # Null /\ Positive(submit_s) THEN Float(submit_s.milli * 1000)
        ELSE Null

\* lines 55-59: whether the loop keeps the row
keeps(row, include_failed) ==
    LET exit_code == strip(Or(row.exit_code, JStr("")).s)
    IN  IF ~include_failed /\ exit_code \notin {"", "0"} THEN FALSE
        ELSE _duration_ms(row) # Null

\* lines 52-61
_filter_rows(rows, include_failed) == SelectSeq(rows, LAMBDA row : keeps(row, include_failed))

\* longest table drawn as input
MaxRows == 2

Cell(s) == IF s = "none" THEN Null ELSE JStr(s)

ExitCells == {Cell(s) : s \in {"none", "", " ", "0", " 0 ", "1", "0.0", "-5"}}

AppCells == {Cell(s) : s \in {"none", "", "3500", " 3500 ", "0", "-5", "nan", "abc"}}

SubmitCells == {Cell(s) : s \in {"none", "", "2.5", "0", "-5", "abc"}}

Row(e, a, s) == [exit_code |-> e, app_duration_ms |-> a, submit_elapsed_s |-> s]

\* rows of every exit code with good metrics, rows of every pair of metrics of a
\* run that succeeded, and of a run that failed
CsvRows ==
    {Row(e, Cell("3500"), Cell("2.5")) : e \in ExitCells}
        \cup {Row(Cell("0"), a, s) : a \in AppCells, s \in SubmitCells}
        \cup {Row(Cell("1"), a, Cell("2.5")) : a \in AppCells}

InitFilter ==
    /\ AtRest
    /\ dirs = {}
    /\ eventlogs = <<>>
    /\ \E rows \in UNION {[1..n -> CsvRows] : n \in 0..MaxRows}, include_failed \in BOOLEAN :
          call = [fn |-> "_filter_rows", rows |-> rows, include_failed |-> include_failed]
    /\ result = Pending

filter_rows ==
    /\ call.fn = "_filter_rows"
    /\ ~result.done
    /\ result' = Returned(_filter_rows(call.rows, call.include_failed))
    /\ UNCHANGED call
    /\ UNCHANGED orchestrator

NextFilter == filter_rows

SpecFilter == InitFilter /\ [][NextFilter]_vars

\* ------------------------------------------------------------------- C28
\* the number a cell holds, nothing when it is missing, empty or no number
NumberIn(cell) ==
    IF cell = Null \/ strip(cell.s) = "" \/ float(strip(cell.s)) = ValueError THEN Null
    ELSE float(strip(cell.s))

\* the duration a row yields: the application duration if present and > 0,
\* otherwise the submission time x 1000 if > 0
DerivedDuration(row) ==
    IF NumberIn(row.app_duration_ms) # Null /\ Positive(NumberIn(row.app_duration_ms))
        THEN NumberIn(row.app_duration_ms)
    ELSE IF NumberIn(row.submit_elapsed_s) # Null /\ Positive(NumberIn(row.submit_elapsed_s))
        THEN Float(1000 * NumberIn(row.submit_elapsed_s).milli)
    ELSE Null

ExitCodeOk(row) == row.exit_code = Null \/ strip(row.exit_code.s) \in {"", "0"}

\* C28: the filter never raises; with include-failed off it keeps exactly the
\* rows whose exit code is empty or "0" and that yield a positive duration, with
\* include-failed on exactly the rows that yield a positive duration; the kept
\* rows stay in their order, and the duration of a kept row is its application
\* duration or, failing that, its submission time x 1000.
C28_RowFilter ==
    (call.fn = "_filter_rows" /\ result.done) =>
        /\ "value" \in DOMAIN result
        /\ result.value =
              SelectSeq(call.rows,
                        LAMBDA row : /\ call.include_failed \/ ExitCodeOk(row)
                                     /\ DerivedDuration(row) # Null)
        /\ \A k \in 1..Len(result.value) :
              /\ _duration_ms(result.value[k]) = DerivedDuration(result.value[k])
              /\ Positive(_duration_ms(result.value[k]))

\* of two rows the failed one was dropped, and the kept one, which has no
\* application duration, falls back to its submission time
C28_Witness ==
    /\ call.fn = "_filter_rows"
    /\ result.done
    /\ ~call.include_failed
    /\ Len(call.rows) = 2
    /\ call.rows[1] = Row(Cell("1"), Cell("3500"), Cell("2.5"))
    /\ call.rows[2] = Row(Cell("0"), Cell(""), Cell("2.5"))
    /\ result.value = <<call.rows[2]>>
    /\ _duration_ms(call.rows[2]) = Float(2500000)

\* ---------------------------------------------------------- plot: size parsing
\* A size string is a sequence of characters: digits, ".", "-", "SP" (a blank)
\* and letters of either case.
DigitChars == <<"0", "1", "2", "3", "4", "5", "6", "7", "8", "9">>

IsDigit(c) == \E d \in 1..Len(DigitChars) : DigitChars[d] = c

DigitValue(c) == (CHOOSE d \in 1..Len(DigitChars) : DigitChars[d] = c) - 1

UpperCase == <<"B", "K", "M", "G", "T", "Y", "E", "S", "I", "P", "X">>

LowerCase == <<"b", "k", "m", "g", "t", "y", "e", "s", "i", "p", "x">>

\* the characters are compared as they are written
lower_case_sensitive(c) == c

\* str.lower() of one character
lower(c) ==
    IF \E i \in 1..Len(UpperCase) : UpperCase[i] = c
        THEN LowerCase[CHOOSE i \in 1..Len(UpperCase) : UpperCase[i] = c]
    ELSE c

IsLetter(c) == \E i \in 1..Len(LowerCase) : LowerCase[i] = c

\* line 95: value.strip().lower()
strip_lower(value) ==
    LET inner == {i \in 1..Len(value) : value[i] # "SP"}
    IN  IF inner = {} THEN <<>>
        ELSE LET first == CHOOSE i \in inner : \A j \in inner : i <= j
                 last == CHOOSE i \in inner : \A j \in inner : j <= i
             IN  [i \in 1..(last - first + 1) |-> lower(value[first + i - 1])]

\* the length of the longest run of digits, blanks or letters of s from position i
RunOf(s, i, kind) ==
    LET Is(c) == CASE kind = "[0-9]" -> IsDigit(c)
                   [] kind = "\\s" -> c = "SP"
                   [] kind = "[a-z]" -> IsLetter(c)
    IN  CHOOSE n \in 0..(Len(s) - i + 1) :
            /\ \A k \in i..(i + n - 1) : Is(s[k])
            /\ i + n > Len(s) \/ ~Is(s[i + n])

\* line 99: re.fullmatch(r"([0-9]+(?:\.[0-9]+)?)\s*([a-z]+)?", s)
size_re(s) ==
    LET whole == RunOf(s, 1, "[0-9]")
        dotted == /\ whole + 1 <= Len(s)
                  /\ s[whole + 1] = "."
                  /\ RunOf(s, whole + 2, "[0-9]") > 0
        number == IF dotted THEN whole + 1 + RunOf(s, whole + 2, "[0-9]") ELSE whole
        blanks == RunOf(s, number + 1, "\\s")
        letters == RunOf(s, number + blanks + 1, "[a-z]")
    IN  IF whole = 0 \/ number + blanks + letters # Len(s) THEN NoMatch
        ELSE [matched |-> TRUE,
              g1 |-> SubSeq(s, 1, number),
              g2 |-> SubSeq(s, number + blanks + 1, Len(s))]

RECURSIVE DigitsValue(_)
\* int of a run of digits
DigitsValue(ds) ==
    IF ds = <<>> THEN 0 ELSE 10 * DigitsValue(SubSeq(ds, 1, Len(ds) - 1)) + DigitValue(ds[Len(ds)])

\* line 103: float(m.group(1)), in thousandths; at most three decimals occur
number_of(g1) ==
    LET whole == RunOf(g1, 1, "[0-9]")
        decimals == SubSeq(g1, whole + 2, Len(g1))
        scale == CASE Len(decimals) = 0 -> 1000
                   [] Len(decimals) = 1 -> 100
                   [] Len(decimals) = 2 -> 10
                   [] OTHER -> 1
    IN  Float(1000 * DigitsValue(SubSeq(g1, 1, whole)) + scale * DigitsValue(decimals))

\* lines 106-117: the exponent e of the factor 1024**e of each unit
factors ==
    (<<"b">> :> 0) @@ (<<"b", "y", "t", "e", "s">> :> 0)
        @@ (<<"k">> :> 1) @@ (<<"k", "b">> :> 1)
        @@ (<<"m">> :> 2) @@ (<<"m", "b">> :> 2)
        @@ (<<"g">> :> 3) @@ (<<"g", "b">> :> 3)
        @@ (<<"t">> :> 4) @@ (<<"t", "b">> :> 4)

\* number * 1024**exp
Size(number, exp) == [number |-> number, base |-> 1024, exp |-> exp]

\* lines 94-120
_parse_size_bytes(value) ==
    LET s == strip_lower(value)
        m == size_re(s)
        unit == IF m.g2 = <<>> THEN <<"b">> ELSE m.g2
    IN  IF s = <<>> THEN Thrown
        ELSE IF ~m.matched THEN Thrown
        ELSE IF unit \notin DOMAIN factors THEN Thrown
        ELSE Returned(Size(number_of(m.g1), factors[unit]))

\* largest magnitude drawn as input
MaxMagnitude == 12

RECURSIVE Decimal(_)
\* the decimal digits of a natural number
Decimal(n) ==
    IF n < 10 THEN <<DigitChars[n + 1]>>
    ELSE Decimal(n \div 10) \o <<DigitChars[(n % 10) + 1]>>

\* magnitudes that are no non-negative integer
OtherMagnitudes ==
    {<<>>, <<"1", ".", "5">>, <<"-", "1">>, <<".", "5">>, <<"7", ".">>}

\* the lower case letter of a letter of either case
InLowerCase(c) ==
    IF \E j \in 1..Len(UpperCase) : UpperCase[j] = c
        THEN LowerCase[CHOOSE j \in 1..Len(UpperCase) : UpperCase[j] = c]
    ELSE c

\* every spelling of a word in upper and lower case letters
Spellings(word) ==
    {s \in [1..Len(word) -> {LowerCase[i] : i \in 1..Len(LowerCase)}
                            \cup {UpperCase[i] : i \in 1..Len(UpperCase)}] :
        \A i \in 1..Len(word) : InLowerCase(s[i]) = word[i]}

UnitWords ==
    UNION {Spellings(w) : w \in {<<"b">>, <<"k">>, <<"k", "b">>, <<"m">>, <<"m", "b">>,
                                 <<"g">>, <<"g", "b">>, <<"t">>, <<"t", "b">>}}
        \cup {<<>>, <<"b", "y", "t", "e", "s">>, <<"B", "Y", "T", "E", "S">>,
              <<"x">>, <<"p", "b">>, <<"k", "i", "b">>, <<"K", "K">>}

Blanks == {<<>>, <<"SP">>}

InitSizes ==
    /\ AtRest
    /\ dirs = {}
    /\ eventlogs = <<>>
    /\ \E magnitude \in {Decimal(n) : n \in 0..MaxMagnitude} \cup OtherMagnitudes,
          unit \in UnitWords, lead \in Blanks, gap \in Blanks, trail \in Blanks :
          call = [fn |-> "_parse_size_bytes",
                  value |-> lead \o magnitude \o gap \o unit \o trail,
                  magnitude |-> magnitude,
                  unit |-> unit]
    /\ result = Pending

parse_size_bytes ==
    /\ call.fn = "_parse_size_bytes"
    /\ ~result.done
    /\ result' = _parse_size_bytes(call.value)
    /\ UNCHANGED call
    /\ UNCHANGED orchestrator

NextSizes == parse_size_bytes

SpecSizes == InitSizes /\ [][NextSizes]_vars

\* ------------------------------------------------------------------- C29
\* the units the claim names, with the exponent i of each
NamedUnits ==
    (<<"b">> :> 0) @@ (<<"k">> :> 1) @@ (<<"k", "b">> :> 1) @@ (<<"m">> :> 2)
        @@ (<<"m", "b">> :> 2) @@ (<<"g">> :> 3) @@ (<<"g", "b">> :> 3) @@ (<<"t">> :> 4)
        @@ (<<"t", "b">> :> 4)

\* the unit of the input in lower case letters
UnitGiven == [i \in 1..Len(call.unit) |-> InLowerCase(call.unit[i])]

\* the input is the non-negative integer n followed by its unit, if any
IsMagnitude(n) == call.magnitude = Decimal(n)

SizeParsed == call.fn = "_parse_size_bytes" /\ result.done

\* the statement for a given table of recognised units
SizeRule(units) ==
    SizeParsed =>
        /\ \A n \in 0..MaxMagnitude :
              IsMagnitude(n) /\ (UnitGiven = <<>> \/ UnitGiven \in DOMAIN units) =>
                  result = Returned(Size(Float(1000 * n),
                                         IF UnitGiven = <<>> THEN 0 ELSE units[UnitGiven]))
        /\ call.value = <<>> => result = Thrown
        /\ UnitGiven # <<>> /\ UnitGiven \notin DOMAIN units => result = Thrown

StepsOfRun(i, j) ==
    LET steps == SelectSeq(SubSeq(log, i + 1, j - 1),
                           LAMBDA e : e.ev \in {"snapshot", "row"} \/ e.cmd \in {"submit", "parse"})
    IN  [k \in 1..Len(steps) |-> <<steps[k].ev, steps[k].cmd>>]

\* a run with an artifact, and a run without
ExtractedRun ==
    <<<<"exit", "submit">>, <<"launch", "parse">>, <<"exit", "parse">>,
      <<"snapshot", "write">>, <<"row", "write">>>>

UnextractedRun == <<<<"exit", "submit">>, <<"snapshot", "write">>, <<"row", "write">>>>

SnapshotsWritten == Len(SelectSeq(log, LAMBDA e : e.ev = "snapshot"))

RowsWritten == Len(SelectSeq(log, LAMBDA e : e.ev = "row"))

\* C30: the steps of every run are, in this order, workload exit, artifact
\* location, extraction (only if an artifact was located), snapshot write and
\* row append, and they are complete before the next workload is launched; the
\* rows written by the invocation are as many as the snapshots or one less.
C30_StepOrderPerRun ==
    /\ \A i \in 1..Len(log) :
          IsLaunch(log[i], "submit") =>
              LET next == NextSubmit(i)
                  steps == StepsOfRun(i, next)
              IN  /\ IsPrefix(steps, ExtractedRun) \/ IsPrefix(steps, UnextractedRun)
                  /\ next <= Len(log) => steps \in {ExtractedRun, UnextractedRun}
                  /\ (steps = <<>>) = (next = Len(log) + 1 /\ pc = "wait_submit")
    /\ pc = "after_submit" => IsExit(Last(log), "submit")
    /\ pc = "wait_parse" => loc.eventlog_path # None /\ IsLaunch(Last(log), "parse")
    /\ (pc = "snapshot" /\ IsExit(Last(log), "submit")) => loc.eventlog_path = None
    /\ (pc = "snapshot" /\ IsExit(Last(log), "parse")) => loc.eventlog_path # None
    /\ LET snapshots_written == SnapshotsWritten
           rows_written == RowsWritten
       IN  /\ rows_written \in {snapshots_written, snapshots_written - 1}
           /\ (rows_written = snapshots_written - 1) = (pc = "row")

\* the first run went through extraction and is complete, the second run has
\* its snapshot written and its row not yet
C30_Witness ==
    /\ \E i \in 1..Len(log) :
          /\ IsLaunch(log[i], "submit")
          /\ NextSubmit(i) <= Len(log)
          /\ StepsOfRun(i, NextSubmit(i)) = ExtractedRun
    /\ SnapshotsWritten = 2
    /\ RowsWritten = 1

\* ------------------------------------------------- override of a cycle (C31)
\* the directory the lifecycle commands of target i are pointed at: the directory
\* of the i-th requested variant; for a sweep value the directory generated for
\* that value, and the base variant's own when the sweep writes no configuration
OverrideOf(i) ==
    IF args.cmd = "ablation"
       THEN <<"conf", "scache-multinode", Requested[i]>>
    ELSE IF args.sweep \in {"cxl-capacity", "align"}
       THEN args.out \o <<SweepRootName(args.sweep), "generated-conf", args.values[i]>>
    ELSE <<"conf", "scache-multinode", "ultrashuffle-full">>

IsCycleLaunch(e) == e.ev = "launch" /\ e.cmd \in {"stop", "start"}

\* C31: with restart enabled every stop and every start is launched with the
\* override of its own variant / sweep value, a start follows the stop of the same
\* target with the same override, and every workload launch has before it a start
\* of its own target that exited zero with that override, with no stop or start
\* launched between that exit and the workload launch; so each run lies after the
\* successful start of its target and before any cycle of another target.
C31_RunsInsideOwnCycle ==
    args.restart_cluster =>
        LET cycle == Lifecycle
            runs == SelectSeq(Indices(log), LAMBDA k : IsLaunch(log[k], "submit"))
            cycles == SelectSeq(Indices(log), LAMBDA m : IsCycleLaunch(log[m]))
            started == SelectSeq(Indices(log), LAMBDA i : IsExit(log[i], "start"))
        IN  /\ \A i \in 1..Len(cycle) :
                  /\ cycle[i].conf = OverrideOf(cycle[i].vi)
                  /\ cycle[i].cmd = "start" =>
                        /\ i > 1
                        /\ cycle[i - 1].cmd = "stop"
                        /\ cycle[i - 1].vi = cycle[i].vi
                        /\ cycle[i - 1].conf = cycle[i].conf
            /\ \A r \in 1..Len(runs) :
                  LET k == runs[r]
                  IN  /\ \E s \in 1..Len(started) :
                            LET i == started[s]
                            IN  /\ i < k
                                /\ log[i].rc = 0
                                /\ log[i].vi = log[k].vi
                                /\ log[i].conf = OverrideOf(log[k].vi)
                                /\ \A c \in 1..Len(cycles) : ~(i < cycles[c] /\ cycles[c] < k)
                      /\ \A c \in 1..Len(cycles) :
                            log[cycles[c]].vi # log[k].vi =>
                               (cycles[c] < k <=> log[cycles[c]].vi < log[k].vi)

\* two targets were cycled with different overrides and the second one's run is
\* under way, the first one's run having been launched before the second cycle
C31_Witness ==
    /\ args.restart_cluster
    /\ pc = "wait_submit"
    /\ vi = 2
    /\ OverrideOf(1) # OverrideOf(2)
    /\ \E k \in 1..Len(log) : IsLaunch(log[k], "submit") /\ log[k].vi = 1
    /\ IsLaunch(Last(log), "submit")

\* ------------------------------------------------ one cycle per target (C32)
\* number of launches of a lifecycle command in this invocation
Launches(cmd) == Cardinality({i \in 1..Len(log) : IsLaunch(log[i], cmd)})

\* the variants or sweep values the invocation goes over
Targets == IF args.cmd = "ablation" THEN Len(Requested) ELSE Len(args.values)

Finished == pc = "exited" /\ status = 0

\* C32: with restart enabled at most one stop and one start are launched for each
\* variant / sweep value however many repeats it has, and an invocation that has
\* run to its end (so every start succeeded) has launched exactly as many stops
\* and as many starts as it has variants / values, for every repeat count from
\* zero up; with restart disabled no stop and no start is ever launched.
C32_OneCyclePerTarget ==
    LET cycle == Lifecycle
        stops == Len(SelectSeq(cycle, LAMBDA e : e.cmd = "stop"))
        starts == Len(SelectSeq(cycle, LAMBDA e : e.cmd = "start"))
    IN  /\ args.restart_cluster =>
              /\ \A i, j \in 1..Len(cycle) :
                    (cycle[i].cmd = cycle[j].cmd /\ cycle[i].vi = cycle[j].vi) => i = j
              /\ Finished => stops = Targets /\ starts = Targets
        /\ ~args.restart_cluster => stops = 0 /\ starts = 0

\* one variant with two repeats has run to its end with one stop and one start,
\* a workload having failed on the way
C32_Witness ==
    /\ args.restart_cluster
    /\ Finished
    /\ Targets = 1
    /\ args.repeats = 2
    /\ Len(SubmitLaunches) = 2
    /\ Launches("stop") = 1
    /\ \E i \in 1..Len(log) : IsExit(log[i], "submit") /\ log[i].rc # 0

\* with restart disabled the workloads ran, one of them failing, and no lifecycle
\* command was launched
C32_WitnessDisabled ==
    /\ ~args.restart_cluster
    /\ Finished
    /\ Len(SubmitLaunches) >= 2
    /\ \E i \in 1..Len(log) : IsExit(log[i], "submit") /\ log[i].rc # 0

\* -------------------------------------------------- artifact freshness (C33)
\* the workload process of the run being recorded: the last one launched
CurrentWorkload == serial - 1

Recording == pc \in {"wait_parse", "snapshot", "row"}

\* C33: the artifact located for a run, which is the one its snapshot and row
\* record, was written by the workload process of that run; a run whose workload
\* wrote nothing is recorded with no artifact and no metrics, whatever an earlier
\* run left in the same run directory.
C33_ArtifactWrittenByOwnRun ==
    /\ (Recording /\ loc.eventlog_path # None) =>
           loc.eventlog_path[1].id = CurrentWorkload
    /\ (pc = "row" /\ loc.run_dir \in DOMAIN eventlogs
                   /\ \A f \in eventlogs[loc.run_dir] : f.id # CurrentWorkload) =>
           /\ snapshots[loc.run_dir].eventlog = None
           /\ snapshots[loc.run_dir].eventlog_summary = None

\* --------------------------------------------------------- termination (C34)
\* The orchestrator is a running process, so a step of its own that is possible
\* is eventually taken; that a child which has been launched eventually exits
\* (_run_wait, _parse_eventlog) is the hypothesis of the termination claim.
Fairness == WF_vars(Steps)

SpecFair == Init /\ [][Next]_vars /\ Fairness

\* events an invocation can log: a stop and a start with their exits per target,
\* and per run the workload and the extractor with their exits, a snapshot, a row
StepBound == 4 * Targets + 6 * Targets * args.repeats

Waiting == pc \in {"wait_stop", "wait_start", "wait_submit", "wait_parse"}

Ended == pc = "exited"

\* C34: if every child that is launched eventually exits, an invocation that has
\* been started eventually ends (status 0, or non-zero after a fatal abort); the
\* events it logs never exceed a bound linear in targets and targets x repeats,
\* and no more workloads are launched than targets x repeats.  While a child is
\* in flight the orchestrator is waiting for it and every step that is taken is
\* the exit of that child: there is no timeout and no cancellation.
C34_TerminatesUnlessChildHangs ==
    /\ (pc # "idle") ~> Ended
    /\ [](Len(log) <= StepBound /\ Len(SubmitLaunches) <= Targets * args.repeats)
    /\ [](inflight # {} <=> Waiting)
    /\ [][inflight # {} =>
            /\ \E child \in inflight : inflight' = inflight \ {child}
            /\ IsExit(Last(log'), "stop") \/ IsExit(Last(log'), "start")
                  \/ IsExit(Last(log'), "submit") \/ IsExit(Last(log'), "parse")]_vars

\* an invocation of two runs has reached its end through every kind of child
C34_Witness ==
    /\ Ended
    /\ status = 0
    /\ args.restart_cluster
    /\ Len(SubmitLaunches) = 2
    /\ \E i \in 1..Len(log) : IsExit(log[i], "parse")

\* ------------------------------------------- rewrite applied twice (C35)
\* the file a second rewrite with the same updates makes of the first one's output
RewrittenAgain == _rewrite_kv_conf(result.value, call.updates)

\* C35: rewriting the output of a rewrite with the same update set gives that
\* output again, for every source file, with or without a line feed at its end.
C35_RewriteIdempotent ==
    Rewritten => RewrittenAgain = result.value

\* ------------------------------------------------------------ TPC-DS runner
\* tpcds_runner.main in run mode, from the check of --iterations to the end.
\* call holds the picked query files and --iterations; result holds the locals
\* of main (qi: index of qfile in picked, it, results), every spark.sql call made
\* (executed), the writes of results.json / results.csv (written), and the exit
\* status of the process.
MaxQueries == 2

MaxIterations == 2

Stems == {"q1", "q2", "q10"}

SqlChars == {"SP", ";", "select"}

\* str.strip() on a sequence of characters
strip_text(t) ==
    LET blank(c) == c = "SP"
        lead == CHOOSE n \in 0..Len(t) :
                    /\ \A k \in 1..n : blank(t[k])
                    /\ n = Len(t) \/ ~blank(t[n + 1])
        rest == SubSeq(t, lead + 1, Len(t))
        trail == CHOOSE n \in 0..Len(rest) :
                    /\ \A k \in (Len(rest) - n + 1)..Len(rest) : blank(rest[k])
                    /\ n = Len(rest) \/ ~blank(rest[Len(rest) - n])
    IN  SubSeq(rest, 1, Len(rest) - trail)

\* _read_sql: strip, drop one final ";" with the blanks after it, raise if empty
_read_sql(text) ==
    LET stripped == strip_text(text)
        sql == IF stripped # <<>> /\ Last(stripped) = ";"
               THEN SubSeq(stripped, 1, Len(stripped) - 1) ELSE stripped
    IN  IF sql = <<>> THEN ValueError ELSE Returned(sql)

\* the query files the runner may find: empty, blank, only ";", and real ones
SqlTexts == {<<>>, <<";", "SP">>, <<"select", ";">>, <<"SP", "select">>}

\* picked: distinct files in the order given, at least one
PickedLists ==
    {p \in UNION {[1..n -> [stem : Stems, text : SqlTexts]] : n \in 1..MaxQueries} :
        \A i, j \in 1..Len(p) : p[i].stem = p[j].stem => i = j}

\* what spark.sql(...).count() does in the try block: a row count or an Exception
SparkOutcomes ==
    {[ok |-> TRUE, rows |-> Some(7), error |-> None],
     [ok |-> FALSE, rows |-> None, error |-> Some("AnalysisException")]}

QueryResult(query, iteration, rows, ok, error) ==
    [query |-> query, iteration |-> iteration, elapsed_ms |-> "elapsed_ms",
     rows |-> rows, ok |-> ok, error |-> error]

InitTpcds ==
    /\ AtRest
    /\ dirs = {}
    /\ eventlogs = <<>>
    /\ \E picked \in PickedLists, iterations \in 0..MaxIterations :
          call = [fn |-> "main", mode |-> "run", picked |-> picked,
                  iterations |-> iterations]
    /\ result = [done |-> FALSE, at |-> "iterations", qi |-> 1, it |-> 1,
                 sql_text |-> <<>>, results |-> <<>>, executed |-> <<>>,
                 written |-> <<>>, status |-> 0]

\* lines 240-243: --iterations below 1 is refused before any query
check_iterations ==
    /\ call.fn = "main"
    /\ result.at = "iterations"
    /\ result' = IF call.iterations < 1
                    THEN [result EXCEPT !.done = TRUE, !.at = "exited", !.status = 2]
                 ELSE [result EXCEPT !.at = "query"]
    /\ UNCHANGED call
    /\ UNCHANGED orchestrator

\* lines 247-249: the next query file is read, outside any try; an exception of
\* _read_sql ends the process with a traceback; after the last query: line 282
next_query ==
    /\ call.fn = "main"
    /\ result.at = "query"
    /\ result' =
          IF result.qi > Len(call.picked) THEN [result EXCEPT !.at = "write"]
          ELSE LET sql_text == _read_sql(call.picked[result.qi].text)
               IN  IF sql_text = ValueError
                      THEN [result EXCEPT !.done = TRUE, !.at = "exited", !.status = 1]
                   ELSE [result EXCEPT !.at = "iteration", !.it = 1,
                                       !.sql_text = sql_text.value]
    /\ UNCHANGED call
    /\ UNCHANGED orchestrator

\* the iterations go on after a failure
breaks_never(ok) == FALSE

\* lines 280-281: if not ok: break
breaks(ok) == ~ok

\* lines 251-280: one iteration: the query is executed, its result is appended,
\* then the loop goes on to the next iteration or leaves the query
run_iteration ==
    /\ call.fn = "main"
    /\ result.at = "iteration"
    /\ \E outcome \in SparkOutcomes :
          LET qname == call.picked[result.qi].stem
              record == QueryResult(qname, result.it, outcome.rows, outcome.ok,
                                    outcome.error)
              leaves == breaks(outcome.ok) \/ result.it + 1 > call.iterations
          IN  result' =
                 [result EXCEPT
                    !.executed = Append(@, <<qname, result.it, result.sql_text>>),
                    !.results = Append(@, record),
                    !.at = IF leaves THEN "query" ELSE "iteration",
                    !.qi = IF leaves THEN @ + 1 ELSE @,
                    !.it = IF leaves THEN @ ELSE @ + 1]
    /\ UNCHANGED call
    /\ UNCHANGED orchestrator

\* lines 282-285: _write_results writes the whole list, the process returns 0
write_results ==
    /\ call.fn = "main"
    /\ result.at = "write"
    /\ result' = [result EXCEPT !.written = Append(@, result.results),
                                !.done = TRUE, !.at = "exited", !.status = 0]
    /\ UNCHANGED call
    /\ UNCHANGED orchestrator

NextTpcds == check_iterations \/ next_query \/ run_iteration \/ write_results

SpecTpcds == InitTpcds /\ [][NextTpcds]_vars

\* ------------------------------------------------------------------- C36
Runner == result

\* the records of the i-th picked query, in the order they were appended
RecordsOf(i) ==
    SelectSeq(Runner.results, LAMBDA r : r.query = call.picked[i].stem)

\* position in results of the first record of the i-th picked query (0 if none)
FirstRecord(i) ==
    IF RecordsOf(i) = <<>> THEN 0
    ELSE CHOOSE k \in 1..Len(Runner.results) :
            /\ Runner.results[k].query = call.picked[i].stem
            /\ \A j \in 1..(k - 1) : Runner.results[j].query # call.picked[i].stem

RanToEnd == Runner.at = "exited" /\ Runner.status = 0

====
